---- MODULE Spec2Model ----
(***************************************************************************)
(* Verification model of kicad_jlcimport: the 3D placement calculation,    *)
(* the S-expression emitter (sexpr.py), the shared import logic            *)
(* (importer.py) and the terminal user interface (tui.py).                 *)
(*                                                                         *)
(* Numbers that are floats in the program (millimetres, vendor units) are  *)
(* fixed-point integers counting 1/10000 of the unit: 7.600 is 76000,      *)
(* model.z = -1340 is -13400000.  Inputs are drawn so that the program's   *)
(* divisions (/ 2, / 100) are exact on them.                               *)
(***************************************************************************)
EXTENDS Integers, Sequences, FiniteSets, TLC

VARIABLES
    \* ---- 3D placement (importer.py, tools/, tui.py) ----
    fp_model,       \* footprint.model: NoModel or [uuid, origin_x, origin_y, z, rotation]
    comp_uuid_3d,   \* comp.get("uuid_3d", "")
    fp_origin,      \* <<comp["fp_origin_x"], comp["fp_origin_y"]>>
    geometry,       \* the OBJ vertex data obtainable for the model (NoGeometry: none)
    op,             \* the operation that has run ("none" before any)
    model_offset,   \* (x, y, z) result
    model_rotation, \* (x, y, z) result
    calc_calls,     \* sequence of the geometry arguments compute_model_transform was called with
    z_offset_new,   \* tools/test_zoffset_change.py result["z_offset_new"]
    z_offset_old,   \* tools/test_zoffset_change.py result["z_offset_old"]
    \* ---- S-expression emitter (sexpr.py) ----
    nodes,          \* the SExpr objects: nodes[i] = [name, items]; nodes[1] is the root
    ret,            \* the text returned by the last render() call (empty: none yet)
    \* ---- shared import logic (importer.py) ----
    comp_symbols,      \* comp["symbol_data_list"] is non-empty
    export_only,       \* import_component(export_only=...)
    use_global,        \* import_component(use_global=...)
    kicad_version,     \* import_component(kicad_version=...)
    overwrite,         \* import_component(overwrite=...)
    confirm_overwrite, \* a confirm_overwrite callback is given
    confirm_metadata,  \* a confirm_metadata callback is given
    fs,                \* the files of the destination directory
    calls,             \* number of download_step / download_wrl_source calls so far
    imports,           \* number of import_component calls so far
    last,              \* what the last import_component call did and returned
    \* ---- pure functions (one call per behaviour) ----
    args,              \* the arguments of the call
    result,            \* what the call returned
    call_done,         \* the call has been made and has returned
    \* ---- terminal user interface (tui.py, class JLCImportTUI) ----
    raw_search_results,         \* self._raw_search_results
    search_results,             \* self._search_results
    table,                      \* the rows of the #results-table DataTable
    sort_col,                   \* self._sort_col
    sort_ascending,             \* self._sort_ascending
    selected_index,             \* self._selected_index
    selected_row,               \* the row the user clicked last (NoRow: none since the last reset)
    type_filter,                \* pressed_index of the #type-filter RadioSet
    min_stock,                  \* value of the #min-stock-select Select
    part_input,                 \* value of the #part-input Input
    image_request_id,           \* self._image_request_id
    detail_image_data,          \* self._detail_image_data
    detail_image,               \* what the #detail-image ImageWidget shows
    import_btn_disabled,        \* #import-btn.disabled
    detail_import_btn_disabled, \* #detail-import-btn.disabled
    search_btn_disabled,        \* #search-btn.disabled
    gallery,                    \* the GalleryScreen constructed last
    workers,                    \* the running @work(thread=True) threads
    spawned,                    \* number of worker threads started so far
    user_events                 \* number of user events handled so far

placeVars == <<fp_model, comp_uuid_3d, fp_origin, geometry, op, model_offset,
               model_rotation, calc_calls, z_offset_new, z_offset_old>>

emitVars == <<nodes, ret>>

impVars == <<comp_symbols, export_only, use_global, kicad_version, overwrite,
             confirm_overwrite, confirm_metadata, fs, calls, imports, last>>

pureVars == <<args, result, call_done>>

tuiVars == <<raw_search_results, search_results, table, sort_col, sort_ascending,
             selected_index, selected_row, type_filter, min_stock, part_input,
             image_request_id, detail_image_data, detail_image, import_btn_disabled,
             detail_import_btn_disabled, search_btn_disabled, gallery, workers,
             spawned, user_events>>

vars == <<placeVars, emitVars, impVars, pureVars, tuiVars>>

\* Python's None, for a missing geometry (no OBJ text) and for a result not computed
NoGeometry == {}
NoResult == <<>>

\* footprint.model is None
NoModel == [present |-> FALSE, uuid |-> "", origin_x |-> 0, origin_y |-> 0, z |-> 0,
            rotation |-> <<0, 0, 0>>]

Abs(x) == IF x < 0 THEN -x ELSE x

SetMin(S) == CHOOSE x \in S : \A y \in S : x <= y
SetMax(S) == CHOOSE x \in S : \A y \in S : x >= y

(***************************************************************************)
(* Bounds of the placement inputs.                                         *)
(***************************************************************************)
MaxZ == 2
MaxVerts == 2
MaxModelZ == 1

\* z_min / z_max of the two reference parts of tools/compare_parts.py
\* (C668119: -3.400 / 7.600, C5206: -5.975 / 2.285), in 1/10000 mm.
ZSamples == {-34000, 76000, -59750, 22850}

\* vertex z coordinates: even, so that -z_min / 2 is exact
ZValues == {2 * k : k \in -MaxZ..MaxZ} \cup ZSamples

\* vertices off the origin in x, so that the bounding box centre is not (0, 0)
Vertices == [x : {50000}, y : {0}, z : ZValues]

RECURSIVE SetsUpTo(_, _)
\* the subsets of S with at most n elements
SetsUpTo(S, n) ==
    IF n = 0 THEN {{}}
    ELSE LET smaller == SetsUpTo(S, n - 1)
         IN smaller \cup {g \cup {v} : g \in smaller, v \in S}

\* an OBJ text with 1..MaxVerts vertices
Geometries == SetsUpTo(Vertices, MaxVerts) \ {{}}

\* declared model.z (vendor units): multiples of 100/10000, so that / 100 is exact;
\* -13400000 is model.z = -1340
ModelZValues == {100 * k : k \in -MaxModelZ..MaxModelZ} \cup {-13400000}

Models == [present : {TRUE}, uuid : {"", "u1"}, origin_x : {40000000}, origin_y : {30000000},
           z : ModelZValues, rotation : {<<0, 0, 0>>, <<0, 0, 900000>>}]

(***************************************************************************)
(* _obj_bounding_box(obj_source) -> cx, cy, z_min, z_max                   *)
(***************************************************************************)
obj_bounding_box(obj) ==
    LET xs == {v.x : v \in obj}
        ys == {v.y : v \in obj}
        zs == {v.z : v \in obj}
    IN [cx |-> (SetMin(xs) + SetMax(xs)) \div 2,
        cy |-> (SetMin(ys) + SetMax(ys)) \div 2,
        z_min |-> SetMin(zs),
        z_max |-> SetMax(zs)]

(***************************************************************************)
(* The z-offset heuristic, tools/test_zoffset_change.py:41-45              *)
(*     if z_max < abs(z_min): z_offset = z_max   # extends below           *)
(*     else:                  z_offset = -z_min / 2   # extends above      *)
(***************************************************************************)
HeuristicZLe(z_min, z_max) ==
    IF z_max <= Abs(z_min) THEN z_max ELSE (-z_min) \div 2

HeuristicZSwapped(z_min, z_max) ==
    IF z_max < Abs(z_min) THEN (-z_min) \div 2 ELSE z_max

HeuristicZ(z_min, z_max) ==
    IF z_max < Abs(z_min) THEN z_max ELSE (-z_min) \div 2

(***************************************************************************)
(* The declared offset, tools/test_zoffset_change.py:53                    *)
(*     "z_offset_old": footprint.model.z / 100.0                           *)
(***************************************************************************)
DeclaredZUnscaled(z) == z

DeclaredZ(z) == z \div 100

(***************************************************************************)
(* compute_model_transform(model, fp_origin_x, fp_origin_y, obj_source)    *)
(* -> (offset, rotation).  kicad/model3d.py is not part of the sources;    *)
(* the body follows section 4.4 of the specification, with the two rules   *)
(* above as the tools state them.                                          *)
(***************************************************************************)
compute_model_transform(model, ox, oy, obj_source) ==
    LET bb == obj_bounding_box(obj_source)
        z == IF obj_source = NoGeometry
             THEN DeclaredZ(model.z)
             ELSE HeuristicZ(bb.z_min, bb.z_max)
    IN [offset |-> <<0, 0, z>>, rotation |-> model.rotation]

(***************************************************************************)
(* Text.  A Python str is a sequence of one-character strings.             *)
(***************************************************************************)
QUOTE == "\""
NL == "\n"
TAB == "\t"
CR == "\r"

DigitChars == <<"0", "1", "2", "3", "4", "5", "6", "7", "8", "9">>

DigitChar(d) == DigitChars[d + 1]

\* str.isdigit() on one character of the model's alphabet
IsDigit(c) == \E d \in 0..9 : c = DigitChar(d)

Contains(t, c) == \E i \in 1..Len(t) : t[i] = c

\* c repeated n times
Rep(c, n) == [i \in 1..n |-> c]

RECURSIVE Concat(_)
\* "".join(parts)
Concat(parts) ==
    IF parts = <<>> THEN <<>> ELSE Head(parts) \o Concat(Tail(parts))

RECURSIVE Join(_, _)
\* sep.join(parts)
Join(sep, parts) ==
    IF parts = <<>> THEN <<>>
    ELSE IF Len(parts) = 1 THEN parts[1]
    ELSE parts[1] \o sep \o Join(sep, Tail(parts))

RECURSIVE RStrip(_, _)
\* t.rstrip(c) for a single character c
RStrip(t, c) ==
    IF t # <<>> /\ t[Len(t)] = c THEN RStrip(SubSeq(t, 1, Len(t) - 1), c) ELSE t

RECURSIVE NatDigits(_)
\* the decimal digits of a natural number, most significant first
NatDigits(n) ==
    IF n < 10 THEN <<n>> ELSE Append(NatDigits(n \div 10), n % 10)

DigitsText(ds) == [i \in 1..Len(ds) |-> DigitChar(ds[i])]

\* str(n) for an int
IntStr(n) == IF n < 0 THEN <<"-">> \o DigitsText(NatDigits(-n)) ELSE DigitsText(NatDigits(n))

(***************************************************************************)
(* A float of the model is the binary fraction                             *)
(*       value = (-1)^neg * (ip + fnum / 2^fbits)                          *)
(* ip: the decimal digits of the integer part (no leading zero, <<0>> for  *)
(* zero), 0 <= fnum < 2^fbits.  Every such value with at most 53           *)
(* significant bits is a double, and its decimal expansion is finite, so   *)
(* the conversions below are exact.                                        *)
(***************************************************************************)
RECURSIVE Pow2(_)
Pow2(k) == IF k = 0 THEN 1 ELSE 2 * Pow2(k - 1)

IsIntegral(v) == v.fnum = 0

IsZeroFloat(v) == v.fnum = 0 /\ v.ip = <<0>>

RECURSIVE FracDigits(_, _, _)
\* the first n decimal digits of num/den (num < den) and the remainder left
FracDigits(num, den, n) ==
    IF n = 0 THEN [digits |-> <<>>, rest |-> num]
    ELSE LET d == (num * 10) \div den
             r == FracDigits((num * 10) % den, den, n - 1)
         IN [digits |-> <<d>> \o r.digits, rest |-> r.rest]

RECURSIVE IncDigits(_)
\* a decimal digit string plus one (the carry may lengthen it)
IncDigits(ds) ==
    IF ds = <<>> THEN <<1>>
    ELSE IF ds[Len(ds)] < 9 THEN [ds EXCEPT ![Len(ds)] = @ + 1]
    ELSE Append(IncDigits(SubSeq(ds, 1, Len(ds) - 1)), 0)

\* f"{value:.6f}": six decimals, correctly rounded (ties to even)
Fixed6(v) ==
    LET den == Pow2(v.fbits)
        fd == FracDigits(v.fnum, den, 6)
        all == v.ip \o fd.digits
        up == \/ 2 * fd.rest > den
              \/ 2 * fd.rest = den /\ all[Len(all)] % 2 = 1
        rounded == IF up THEN IncDigits(all) ELSE all
        n == Len(rounded)
    IN (IF v.neg THEN <<"-">> ELSE <<>>)
         \o DigitsText(SubSeq(rounded, 1, n - 6)) \o <<".">>
         \o DigitsText(SubSeq(rounded, n - 5, n))

\* f"{int(value)}" (int(-0.0) is 0)
IntOfFloatStr(v) ==
    (IF v.neg /\ v.ip # <<0>> THEN <<"-">> ELSE <<>>) \o DigitsText(v.ip)

(***************************************************************************)
(* _format_float, sexpr.py:61-66                                           *)
(*     if value == int(value) and abs(value) < 1e10: return f"{int(value)}"*)
(*     return f"{value:.6f}".rstrip("0").rstrip(".")                       *)
(* abs(value) < 1e10 for an integral value: at most 10 digits.             *)
(***************************************************************************)
format_float_nostrip(value) ==
    IF IsIntegral(value) /\ Len(value.ip) <= 10
    THEN IntOfFloatStr(value)
    ELSE Fixed6(value)

format_float(value) ==
    IF IsIntegral(value) /\ Len(value.ip) <= 10
    THEN IntOfFloatStr(value)
    ELSE RStrip(RStrip(Fixed6(value), "0"), ".")

(***************************************************************************)
(* _quote_if_needed, sexpr.py:69-76                                        *)
(***************************************************************************)
quote_if_needed_nodigit(s) ==
    IF s = <<>> THEN <<QUOTE, QUOTE>>
    ELSE IF \E c \in {" ", TAB, NL, QUOTE, "(", ")"} : Contains(s, c)
         THEN <<QUOTE>> \o s \o <<QUOTE>>
         ELSE s

quote_if_needed(s) ==
    IF s = <<>> THEN <<QUOTE, QUOTE>>
    ELSE IF (\E c \in {" ", TAB, NL, QUOTE, "(", ")"} : Contains(s, c)) \/ IsDigit(s[1])
         THEN <<QUOTE>> \o s \o <<QUOTE>>
         ELSE s

(***************************************************************************)
(* Items of an SExpr (sexpr.py:10): str, float, int or a nested SExpr.     *)
(* One record shape for all kinds; ref is the index of the nested node.    *)
(***************************************************************************)
ZeroFloat == [neg |-> FALSE, ip |-> <<0>>, fnum |-> 0, fbits |-> 0]

StrItem(s) == [kind |-> "str", s |-> s, n |-> 0, f |-> ZeroFloat, ref |-> 0]
IntItem(n) == [kind |-> "int", s |-> <<>>, n |-> n, f |-> ZeroFloat, ref |-> 0]
FloatItem(f) == [kind |-> "float", s |-> <<>>, n |-> 0, f |-> f, ref |-> 0]
NodeItem(k) == [kind |-> "node", s |-> <<>>, n |-> 0, f |-> ZeroFloat, ref |-> k]

\* the column limit of render, sexpr.py:33
WIDTH == 80

\* the text of a scalar item, sexpr.py:37-42
ScalarText(item) ==
    IF item.kind = "float" THEN format_float(item.f)
    ELSE IF item.kind = "int" THEN IntStr(item.n)
    ELSE quote_if_needed(item.s)

\* the test that sends a rendered child to its own line, sexpr.py:33
IsBlockChildGe(rendered) == Contains(rendered, NL) \/ Len(rendered) >= WIDTH

IsBlockChildNoWidth(rendered) == Contains(rendered, NL)

IsBlockChild(rendered) == Contains(rendered, NL) \/ Len(rendered) > WIDTH

RECURSIVE render(_, _, _)
(***************************************************************************)
(* SExpr.render, sexpr.py:24-58, of node k of heap h.                      *)
(***************************************************************************)
render(h, k, indent) ==
    LET items == h[k].items
        rendered == [i \in 1..Len(items) |->
                        IF items[i].kind = "node"
                        THEN render(h, items[i].ref, indent + 1)
                        ELSE ScalarText(items[i])]
        isBlock == [i \in 1..Len(items) |->
                        items[i].kind = "node" /\ IsBlockChild(rendered[i])]
        idx == [i \in 1..Len(items) |-> i]
        inline_items == [j \in 1..Len(SelectSeq(idx, LAMBDA i : ~isBlock[i])) |->
                            rendered[SelectSeq(idx, LAMBDA i : ~isBlock[i])[j]]]
        block_children == [j \in 1..Len(SelectSeq(idx, LAMBDA i : isBlock[i])) |->
                            rendered[SelectSeq(idx, LAMBDA i : isBlock[i])[j]]]
        prefix == Rep(" ", 2 * (indent + 1))
        head == <<"(">> \o h[k].name
                  \o (IF inline_items # <<>> THEN <<" ">> \o Join(<<" ">>, inline_items)
                      ELSE <<>>)
    IN IF block_children # <<>>
       THEN head \o <<NL>>
              \o Concat([j \in 1..Len(block_children) |->
                            prefix \o block_children[j] \o <<NL>>])
              \o Rep(" ", 2 * indent) \o <<")">>
       ELSE head \o <<")">>

(***************************************************************************)
(* Bounds and inputs of the emitter.                                       *)
(***************************************************************************)
MaxStrLen == 2
MaxInt == 12
MaxFracBits == 21
MaxItems == 4

Chars == {"a", "1", " ", TAB, NL, CR, "(", ")", QUOTE, "-"}

RECURSIVE StringsUpTo(_)
StringsUpTo(n) ==
    IF n = 0 THEN {<<>>}
    ELSE LET shorter == StringsUpTo(n - 1)
         IN shorter \cup {Append(t, c) : t \in {u \in shorter : Len(u) = n - 1}, c \in Chars}

Strings == StringsUpTo(MaxStrLen)

\* integer parts: small ones, and 9999999999 and 10000000000 around the 1e10 test
SmallIntParts == {<<0>>, <<2>>, <<9>>, <<9, 9>>}
BigIntParts == {Rep(9, 10), <<1>> \o Rep(0, 10)}

Floats ==
    [neg : BOOLEAN, ip : SmallIntParts \cup BigIntParts, fnum : {0}, fbits : {0}]
    \cup UNION {[neg : BOOLEAN, ip : SmallIntParts, fnum : {fn \in {1, 3, Pow2(fb) - 1} : fn < Pow2(fb)},
                 fbits : {fb}] : fb \in 1..MaxFracBits}

ScalarItems ==
    {StrItem(t) : t \in Strings}
    \cup {IntItem(i) : i \in -MaxInt..MaxInt}
    \cup {FloatItem(f) : f \in Floats}

\* the scalars trees are built from: a plain and a quote-bearing string, two
\* fillers that make a one-item node exactly WIDTH and WIDTH + 1 long, a number
\* of each kind
TreeScalars ==
    {StrItem(<<"a">>), StrItem(<<"a", QUOTE>>),
     StrItem(Rep("x", WIDTH - 4)), StrItem(Rep("x", WIDTH - 3)),
     IntItem(7), FloatItem([neg |-> FALSE, ip |-> <<2>>, fnum |-> 1, fbits |-> 1])}

NodeNames == {<<"n">>}

(***************************************************************************)
(* Operations of the builder.                                              *)
(***************************************************************************)
TotalItems == LET counts == [k \in 1..Len(nodes) |-> Len(nodes[k].items)]
                  sum[i \in 0..Len(nodes)] == IF i = 0 THEN 0 ELSE sum[i - 1] + counts[i]
              IN sum[Len(nodes)]

\* SExpr.add(arg), sexpr.py:12-16, on node k
Add(k, arg) ==
    /\ TotalItems < MaxItems
    /\ nodes' = [nodes EXCEPT ![k].items = Append(@, arg)]
    /\ ret' = <<>>
    /\ UNCHANGED <<placeVars, impVars, pureVars, tuiVars>>

\* SExpr.child(name), sexpr.py:18-22, on node k
Child(k, name) ==
    /\ TotalItems < MaxItems
    /\ nodes' = Append([nodes EXCEPT ![k].items = Append(@, NodeItem(Len(nodes) + 1))],
                       [name |-> name, items |-> <<>>])
    /\ ret' = <<>>
    /\ UNCHANGED <<placeVars, impVars, pureVars, tuiVars>>

\* root.render(), sexpr.py:24
Render ==
    /\ ret = <<>>
    /\ ret' = render(nodes, 1, 0)
    /\ UNCHANGED <<nodes, placeVars, impVars, pureVars, tuiVars>>

PlacementIdle ==
    /\ fp_model = NoModel
    /\ comp_uuid_3d = ""
    /\ fp_origin = <<0, 0>>
    /\ geometry = NoGeometry
    /\ op = "none"
    /\ model_offset = NoResult
    /\ model_rotation = NoResult
    /\ calc_calls = <<>>
    /\ z_offset_new = NoResult
    /\ z_offset_old = NoResult

EmitterIdle ==
    /\ nodes = <<>>
    /\ ret = <<>>

(***************************************************************************)
(* The destination directory before anything is imported, and the record   *)
(* of "no import has run".                                                 *)
(***************************************************************************)
NoFiles ==
    [dirs |-> FALSE, footprint |-> FALSE, fp_model_path |-> "", sym_lib |-> <<>>,
     symbol |-> FALSE, step |-> FALSE, wrl |-> FALSE, tables |-> FALSE]

NoImport ==
    [result |-> "none", events |-> <<>>, log |-> <<>>,
     existing |-> <<>>, co_returned |-> <<>>, overwrite |-> FALSE,
     cm_arg |-> <<>>, cm_returned |-> <<>>, fp_meta |-> <<>>, sym_meta |-> <<>>,
     result_keys |-> {}, uuid_3d |-> "",
     step_existed |-> FALSE, wrl_existed |-> FALSE, fp_existed |-> FALSE,
     sym_existed |-> FALSE, wrl_first |-> <<>>, calc_args |-> <<>>,
     saved_source |-> <<>>,
     model_path |-> "", sym_content |-> ""]

ImportIdle ==
    /\ comp_symbols = FALSE
    /\ export_only = FALSE
    /\ use_global = FALSE
    /\ kicad_version = 0
    /\ overwrite = FALSE
    /\ confirm_overwrite = FALSE
    /\ confirm_metadata = FALSE
    /\ fs = NoFiles
    /\ calls = [step |-> 0, wrl |-> 0]
    /\ imports = 0
    /\ last = NoImport

PureIdle ==
    /\ args = << >>
    /\ result = << >>
    /\ call_done = FALSE

\* JLCImportTUI.__init__ and compose(), tui.py:715-729 and 733-812: the application
\* as it starts, before any event
NoRow == [lcsc |-> "", type |-> "", stock |-> 0, url |-> ""]

NoGallery == [results |-> << >>, index |-> -1]

TuiIdle ==
    /\ raw_search_results = << >>
    /\ search_results = << >>
    /\ table = << >>
    /\ sort_col = -1
    /\ sort_ascending = TRUE
    /\ selected_index = -1
    /\ selected_row = NoRow
    /\ type_filter = 0
    /\ min_stock = 1
    /\ part_input = ""
    /\ image_request_id = 0
    /\ detail_image_data = "None"
    /\ detail_image = "None"
    /\ import_btn_disabled = FALSE
    /\ detail_import_btn_disabled = TRUE
    /\ search_btn_disabled = FALSE
    /\ gallery = NoGallery
    /\ workers = {}
    /\ spawned = 0
    /\ user_events = 0

\* node(name, arg), sexpr.py:79-87: a node with one scalar item
ScalarInit ==
    /\ nodes \in {<<[name |-> nm, items |-> <<x>>]>> : nm \in NodeNames, x \in ScalarItems}
    /\ ret = <<>>
    /\ PlacementIdle
    /\ ImportIdle
    /\ PureIdle
    /\ TuiIdle

ScalarNext == Render

SpecScalar == ScalarInit /\ [][ScalarNext]_vars

\* SExpr(name), sexpr.py:8-10
EmitterInit ==
    /\ nodes \in {<<[name |-> nm, items |-> <<>>]>> : nm \in NodeNames}
    /\ ret = <<>>
    /\ PlacementIdle
    /\ ImportIdle
    /\ PureIdle
    /\ TuiIdle

EmitterNext ==
    \/ \E k \in 1..Len(nodes), arg \in TreeScalars : Add(k, arg)
    \/ \E k \in 1..Len(nodes), name \in NodeNames : Child(k, name)
    \/ Render

SpecEmitter == EmitterInit /\ [][EmitterNext]_vars

(***************************************************************************)
(* download_wrl_source(uuid_3d): the network returns the model's OBJ text, *)
(* or nothing (callers test the result: tools/compare_part.py:558-559,     *)
(* tools/fetch_test_data.py:57-58).                                        *)
(***************************************************************************)
download_wrl_source_results == {geometry, NoGeometry}

(***************************************************************************)
(* import_component, "Determine 3D model UUID and transform",              *)
(* importer.py:157-171, as a function of what the download returned.       *)
(***************************************************************************)
ImporterUuidAlways(model, comp_uuid) ==
    LET u == IF model # NoModel THEN model.uuid ELSE ""
    IN IF u # "" THEN u ELSE IF comp_uuid # "" THEN comp_uuid ELSE "u0"

ImporterUuid(model, comp_uuid) ==
    LET u == IF model # NoModel THEN model.uuid ELSE ""
    IN IF u = "" THEN comp_uuid ELSE u

ImporterTransformNoGuard(model, origin, wrl_source) ==
    LET m == IF model # NoModel THEN model
             ELSE [present |-> TRUE, uuid |-> "", origin_x |-> 0, origin_y |-> 0,
                   z |-> 0, rotation |-> <<0, 0, 0>>]
        t == compute_model_transform(m, origin[1], origin[2], wrl_source)
    IN [offset |-> t.offset, rotation |-> t.rotation, calls |-> <<wrl_source>>]

ImporterTransformNoGeometry(model, origin, wrl_source) ==
    IF model # NoModel
    THEN LET t == compute_model_transform(model, origin[1], origin[2], NoGeometry)
         IN [offset |-> t.offset, rotation |-> t.rotation, calls |-> <<NoGeometry>>]
    ELSE [offset |-> <<0, 0, 0>>, rotation |-> <<0, 0, 0>>, calls |-> << >>]

ImporterTransform(model, origin, wrl_source) ==
    IF model # NoModel
    THEN LET t == compute_model_transform(model, origin[1], origin[2], wrl_source)
         IN [offset |-> t.offset, rotation |-> t.rotation, calls |-> <<wrl_source>>]
    ELSE [offset |-> <<0, 0, 0>>, rotation |-> <<0, 0, 0>>, calls |-> <<>>]

ImportComponentTransform ==
    /\ op = "none"
    /\ LET uuid_3d == ImporterUuid(fp_model, comp_uuid_3d)
       IN \E wrl_source \in (IF uuid_3d # "" THEN download_wrl_source_results ELSE {NoGeometry}) :
            LET t == ImporterTransform(fp_model, fp_origin, wrl_source)
            IN /\ model_offset' = t.offset
               /\ model_rotation' = t.rotation
               /\ calc_calls' = t.calls
    /\ op' = "import_component"
    /\ UNCHANGED <<fp_model, comp_uuid_3d, fp_origin, geometry, z_offset_new, z_offset_old>>
    /\ UNCHANGED <<emitVars, impVars, pureVars, tuiVars>>

(***************************************************************************)
(* JLCImportTUI._do_import, tui.py:1180-1190: the transform is computed    *)
(* from the footprint's model alone, before any download.                  *)
(***************************************************************************)
TuiDoImport ==
    /\ op = "none"
    /\ IF fp_model # NoModel
       THEN LET t == compute_model_transform(fp_model, fp_origin[1], fp_origin[2], NoGeometry)
            IN /\ model_offset' = t.offset
               /\ model_rotation' = t.rotation
               /\ calc_calls' = <<NoGeometry>>
       ELSE /\ model_offset' = <<0, 0, 0>>
            /\ model_rotation' = <<0, 0, 0>>
            /\ calc_calls' = <<>>
    /\ op' = "tui_do_import"
    /\ UNCHANGED <<fp_model, comp_uuid_3d, fp_origin, geometry, z_offset_new, z_offset_old>>
    /\ UNCHANGED <<emitVars, impVars, pureVars, tuiVars>>

(***************************************************************************)
(* analyze_part, tools/analyze_zoffsets.py:14-58: obj_source is the test   *)
(* data file when it exists, else None.                                    *)
(***************************************************************************)
AnalyzePart ==
    /\ op = "none"
    /\ fp_model # NoModel
    /\ LET t == compute_model_transform(fp_model, fp_origin[1], fp_origin[2], geometry)
       IN /\ model_offset' = t.offset
          /\ model_rotation' = t.rotation
          /\ calc_calls' = <<geometry>>
    /\ op' = "analyze_part"
    /\ UNCHANGED <<fp_model, comp_uuid_3d, fp_origin, geometry, z_offset_new, z_offset_old>>
    /\ UNCHANGED <<emitVars, impVars, pureVars, tuiVars>>

(***************************************************************************)
(* analyze_with_new_logic, tools/test_zoffset_change.py:14-54.             *)
(***************************************************************************)
AnalyzeWithNewLogic ==
    /\ op = "none"
    /\ fp_model # NoModel
    /\ geometry # NoGeometry
    /\ LET bb == obj_bounding_box(geometry)
       IN /\ z_offset_new' = <<HeuristicZ(bb.z_min, bb.z_max)>>
          /\ z_offset_old' = <<DeclaredZ(fp_model.z)>>
    /\ op' = "analyze_with_new_logic"
    /\ UNCHANGED <<fp_model, comp_uuid_3d, fp_origin, geometry, model_offset,
                   model_rotation, calc_calls>>
    /\ UNCHANGED <<emitVars, impVars, pureVars, tuiVars>>

PlacementInit ==
    /\ fp_model \in Models \cup {NoModel}
    /\ comp_uuid_3d \in {"", "u2"}
    /\ fp_origin = <<40000000, 30000000>>
    /\ geometry \in Geometries \cup {NoGeometry}
    /\ op = "none"
    /\ model_offset = NoResult
    /\ model_rotation = NoResult
    /\ calc_calls = <<>>
    /\ z_offset_new = NoResult
    /\ z_offset_old = NoResult
    /\ EmitterIdle
    /\ ImportIdle
    /\ PureIdle
    /\ TuiIdle

PlacementNext ==
    \/ ImportComponentTransform
    \/ TuiDoImport
    \/ AnalyzePart
    \/ AnalyzeWithNewLogic

SpecPlacement == PlacementInit /\ [][PlacementNext]_vars

Spec == SpecPlacement

(***************************************************************************)
(* Shared import logic, importer.py.  One component (title "name") is      *)
(* imported repeatedly into one destination; export_only, use_global,      *)
(* overwrite and the presence of the two confirm callbacks are the         *)
(* caller's settings and stay the same from one import to the next.        *)
(***************************************************************************)
MaxImports == 2

\* kicad/version.py
has_generator_version(version) == version >= 9

symbol_format_version(version) == IF version >= 9 THEN 20241209 ELSE 20231120

KicadVersions == {8, 9}

\* one "(field value)" line of a library file
Line(field, num, text) == [field |-> field, num |-> num, text |-> text]

\* _export_only, importer.py:280-289: the text of a symbol library file
ExportSymLibAlwaysGenerator(version, sym_content) ==
    << Line("kicad_symbol_lib", 0, ""),
       Line("version", symbol_format_version(version), ""),
       Line("generator", 0, "JLCImport"),
       Line("generator_version", 0, "1.0"),
       Line("symbol", 0, sym_content) >>

ExportSymLib(version, sym_content) ==
    << Line("kicad_symbol_lib", 0, ""),
       Line("version", symbol_format_version(version), ""),
       Line("generator", 0, "JLCImport") >>
    \o (IF has_generator_version(version)
        THEN << Line("generator_version", 0, "1.0") >> ELSE << >>)
    \o << Line("symbol", 0, sym_content) >>

\* _check_existing_files, importer.py:54-73
check_existing_files(f) ==
    (IF f.footprint THEN <<"footprint">> ELSE << >>)
    \o (IF f.sym_lib # << >> /\ f.symbol THEN <<"symbol">> ELSE << >>)
    \o (IF f.step \/ f.wrl THEN <<"3D model">> ELSE << >>)

(***************************************************************************)
(* kicad/library.py and kicad/model3d.py, as their callers use them.       *)
(***************************************************************************)
ensure_lib_structure(f) == [f EXCEPT !.dirs = TRUE]

\* a model file is written when there is data for it (the WRL one when the
\* source also converts); each returned path is set when its file exists
save_models(f, step_data, wrl_source, vrml_ok) ==
    LET g == [f EXCEPT !.dirs = TRUE,
                       !.step = @ \/ step_data,
                       !.wrl = @ \/ (wrl_source # NoGeometry /\ vrml_ok)]
    IN [fs |-> g, step_path |-> g.step, wrl_path |-> g.wrl]

save_footprint(f, model_path, ow) ==
    IF f.footprint /\ ~ow
    THEN [fs |-> f, saved |-> FALSE]
    ELSE [fs |-> [f EXCEPT !.footprint = TRUE, !.fp_model_path = model_path],
          saved |-> TRUE]

add_symbol_to_lib(f, sym_content, ow, version) ==
    IF f.sym_lib = << >>
    THEN [fs |-> [f EXCEPT !.sym_lib = ExportSymLib(version, sym_content),
                           !.symbol = TRUE],
          added |-> TRUE]
    ELSE IF f.symbol /\ ~ow
    THEN [fs |-> f, added |-> FALSE]
    ELSE [fs |-> [f EXCEPT !.symbol = TRUE], added |-> TRUE]

update_lib_tables(f) == [f EXCEPT !.tables = TRUE]

\* _import_to_library, importer.py:339-341: which downloads are issued
LibraryDownloadsAlways(ow, step_existed, wrl_existed, wrl_source) ==
    [step |-> TRUE, wrl |-> wrl_source = NoGeometry]

LibraryDownloadsWrlRetry(ow, step_existed, wrl_existed, wrl_source) ==
    [step |-> ow \/ ~step_existed, wrl |-> ow \/ ~wrl_existed]

LibraryDownloads(ow, step_existed, wrl_existed, wrl_source) ==
    [step |-> ow \/ ~step_existed,
     wrl |-> wrl_source = NoGeometry /\ (ow \/ ~wrl_existed)]

When(cond, seq) == IF cond THEN seq ELSE << >>

\* _import_to_library, importer.py:391-399 (tui.py:1261-1268): the table update made
TableUpdateProject(global) == "update_project_lib_tables"

TableUpdate(global) ==
    IF global THEN "update_global_lib_tables" ELSE "update_project_lib_tables"

(***************************************************************************)
(* _import_to_library, importer.py:306-401.  wrl_source is what            *)
(* import_component downloaded; wrl2 and step_result are what further      *)
(* downloads return.                                                       *)
(***************************************************************************)
ImportToLibrary(f, uuid_3d, ow, sym_content, wrl_source, wrl2, step_result, vrml_ok) ==
    LET f1 == ensure_lib_structure(f)
        has3d == uuid_3d # ""
        step_existed == f1.step
        wrl_existed == f1.wrl
        d == LibraryDownloads(ow, step_existed, wrl_existed, wrl_source)
        step_data == has3d /\ d.step /\ step_result
        src == IF has3d /\ d.wrl THEN wrl2 ELSE wrl_source
        sv == IF has3d THEN save_models(f1, step_data, src, vrml_ok)
              ELSE [fs |-> f1, step_path |-> FALSE, wrl_path |-> FALSE]
        model_path == IF ~sv.wrl_path THEN ""
                      ELSE IF use_global THEN "/lib_dir/lib.3dshapes/name.wrl"
                      ELSE "${KIPRJMOD}/lib.3dshapes/name.wrl"
        sf == save_footprint(sv.fs, model_path, ow)
        sa == IF sym_content # ""
              THEN add_symbol_to_lib(sf.fs, sym_content, ow, kicad_version)
              ELSE [fs |-> sf.fs, added |-> FALSE]
    IN [fs |-> update_lib_tables(sa.fs),
        events |-> <<"ensure_lib_structure">>
                   \o When(has3d /\ d.step, <<"download_step">>)
                   \o When(has3d /\ d.wrl, <<"download_wrl_source">>)
                   \o When(has3d, <<"save_models">>)
                   \o <<"write_footprint", "save_footprint">>
                   \o When(sym_content # "", <<"add_symbol_to_lib">>)
                   \o <<TableUpdate(use_global)>>,
        log |-> When(~has3d, <<"No 3D model available">>)
                \o When(sv.wrl_path,
                        <<IF wrl_existed /\ ~ow THEN "WRL skipped" ELSE "WRL saved">>)
                \o When(sv.step_path,
                        <<IF step_existed /\ ~ow THEN "STEP skipped" ELSE "STEP saved">>)
                \o <<IF sf.saved THEN "Saved: footprint" ELSE "Skipped: footprint">>
                \o When(sym_content # "",
                        <<IF sa.added THEN "Symbol added" ELSE "Symbol skipped">>)
                \o <<IF use_global THEN "Global library tables updated."
                     ELSE "Project library tables updated.">>,
        model_path |-> model_path,
        saved_source |-> When(has3d, <<src>>)]

(***************************************************************************)
(* _export_only, importer.py:238-303.                                      *)
(***************************************************************************)
ExportOnly(f, uuid_3d, sym_content, wrl_source, wrl2, step_result, vrml_ok) ==
    LET has3d == uuid_3d # ""
        model_path == IF has3d THEN "3dmodels/name.wrl" ELSE ""
        f1 == [f EXCEPT !.dirs = TRUE, !.footprint = TRUE, !.fp_model_path = model_path]
        f2 == IF sym_content # ""
              THEN [f1 EXCEPT !.sym_lib = ExportSymLib(kicad_version, sym_content),
                              !.symbol = TRUE]
              ELSE f1
        again == has3d /\ wrl_source = NoGeometry
        src == IF again THEN wrl2 ELSE wrl_source
        sv == IF has3d THEN save_models(f2, step_result, src, vrml_ok)
              ELSE [fs |-> f2, step_path |-> FALSE, wrl_path |-> FALSE]
    IN [fs |-> sv.fs,
        events |-> <<"makedirs", "write_footprint", "write_footprint_file">>
                   \o When(sym_content # "", <<"write_symbol_file">>)
                   \o When(has3d, <<"download_step">>)
                   \o When(again, <<"download_wrl_source">>)
                   \o When(has3d, <<"save_models">>),
        log |-> <<"Saved: footprint">>
                \o When(sym_content # "", <<"Saved: symbol">>)
                \o When(sv.step_path, <<"Saved: step">>)
                \o When(sv.wrl_path, <<"Saved: wrl">>),
        model_path |-> model_path,
        saved_source |-> When(has3d, <<src>>)]

Count(seq, x) == Cardinality({i \in DOMAIN seq : seq[i] = x})

InSeq(seq, x) == \E i \in DOMAIN seq : seq[i] = x

\* import_component, importer.py:131-136: the overwrite setting after an accepted
\* confirm_overwrite question (asked) or without one
ForcedOverwriteNever(asked, ow) == ow

ForcedOverwrite(asked, ow) == IF asked THEN TRUE ELSE ow

\* a metadata dict; NoneDict is Python's None where a dict is expected
Metadata(d, k, m) == [present |-> TRUE, description |-> d, keywords |-> k, manufacturer |-> m]

NoneDict == [present |-> FALSE, description |-> "", keywords |-> "", manufacturer |-> ""]

\* import_component, importer.py:139-143: the metadata computed from the component
ComputedMetadata == Metadata("computed description", "computed keywords", "comp manufacturer")

\* what a confirm_metadata callback hands back when it does not cancel
EditedMetadata == Metadata("edited description", "edited keywords", "edited manufacturer")

\* import_component, importer.py:144-147: the metadata in force after the callback
ConfirmedMetadataIgnored(computed, given, returned) == computed

ConfirmedMetadata(computed, given, returned) == IF given THEN returned ELSE computed

\* the metadata arguments of write_footprint (importer.py:262-273, 364-375) and
\* of write_symbol (importer.py:183-194)
FootprintMetadata(md) == [description |-> md.description, keywords |-> md.keywords]

SymbolMetadata(md) ==
    [description |-> md.description, keywords |-> md.keywords,
     manufacturer |-> md.manufacturer]

\* the keys of the dict returned at importer.py:303 and importer.py:401
ResultKeys == {"title", "name", "fp_content", "sym_content"}

(***************************************************************************)
(* import_component, importer.py:76-235, on destination files f.           *)
(* co_answer and cm_answer are what the confirm callbacks return when they *)
(* are called (cm_answer FALSE: None); wrl1 is what the download at line   *)
(* 167 returns when it is made.                                            *)
(***************************************************************************)
ReturnNoneAfterLibStructure(f) == ensure_lib_structure(f)

\* the files when import_component returns None, importer.py:133-136, 144-147:
\* both returns come before the first write
ReturnNone(f) == f

import_component(f, co_answer, cm_answer, wrl1, wrl2, step_result, vrml_ok) ==
    LET checks == ~export_only /\ confirm_overwrite
        existing == IF checks THEN check_existing_files(f) ELSE << >>
        asked == existing # << >>
        ow == ForcedOverwrite(asked, overwrite)
        front == <<"fetch_full_component">>
                 \o When(checks, <<"check_existing_files">>)
                 \o When(asked, <<"confirm_overwrite">>)
        base == [NoImport EXCEPT !.existing = existing,
                                 !.co_returned = When(asked, <<co_answer>>),
                                 !.step_existed = f.step,
                                 !.wrl_existed = f.wrl,
                                 !.fp_existed = f.footprint,
                                 !.sym_existed = f.symbol]
        cm_returned == IF cm_answer THEN EditedMetadata ELSE NoneDict
        metadata == ConfirmedMetadata(ComputedMetadata, confirm_metadata, cm_returned)
        None(events, o) ==
            [fs |-> ReturnNone(f),
             last |-> [base EXCEPT !.result = "None", !.events = events,
                                   !.overwrite = o,
                                   !.cm_arg = When(InSeq(events, "confirm_metadata"),
                                                   <<ComputedMetadata>>),
                                   !.cm_returned = When(InSeq(events, "confirm_metadata"),
                                                        <<cm_returned>>)],
             offset |-> NoResult, rotation |-> NoResult, calc |-> << >>]
    IN IF asked /\ ~co_answer THEN None(front, overwrite)
       ELSE IF confirm_metadata /\ ~cm_answer
       THEN None(front \o <<"confirm_metadata">>, ow)
       ELSE
         LET uuid_3d == ImporterUuid(fp_model, comp_uuid_3d)
             wrl_source == IF uuid_3d # "" THEN wrl1 ELSE NoGeometry
             t == ImporterTransform(fp_model, fp_origin, wrl_source)
             sym_content == IF comp_symbols THEN "sym" ELSE ""
             back == IF export_only
                     THEN ExportOnly(f, uuid_3d, sym_content, wrl_source, wrl2,
                                     step_result, vrml_ok)
                     ELSE ImportToLibrary(f, uuid_3d, ow, sym_content, wrl_source, wrl2,
                                          step_result, vrml_ok)
         IN [fs |-> back.fs,
             last |-> [base EXCEPT
                 !.result = "dict",
                 !.events = front
                            \o When(confirm_metadata, <<"confirm_metadata">>)
                            \o <<"parse_footprint_shapes">>
                            \o When(uuid_3d # "", <<"download_wrl_source">>)
                            \o When(fp_model # NoModel, <<"compute_model_transform">>)
                            \o When(comp_symbols, <<"write_symbol">>)
                            \o back.events,
                 !.log = When(~comp_symbols, <<"No symbol data available">>) \o back.log,
                 !.overwrite = ow,
                 !.cm_arg = When(confirm_metadata, <<ComputedMetadata>>),
                 !.cm_returned = When(confirm_metadata, <<cm_returned>>),
                 !.fp_meta = <<FootprintMetadata(metadata)>>,
                 !.sym_meta = When(comp_symbols, <<SymbolMetadata(metadata)>>),
                 !.result_keys = ResultKeys,
                 !.uuid_3d = uuid_3d,
                 !.wrl_first = When(uuid_3d # "", <<wrl_source>>),
                 !.calc_args = t.calls,
                 !.saved_source = back.saved_source,
                 !.model_path = back.model_path,
                 !.sym_content = sym_content],
             offset |-> t.offset, rotation |-> t.rotation, calc |-> t.calls]

\* the component of the import runs: the reference model, with or without a
\* uuid of its own, or no model at all
ImportModels == {m \in Models : m.z = -13400000 /\ m.rotation = <<0, 0, 0>>} \cup {NoModel}

ImportGeometry == {[x |-> 50000, y |-> 0, z |-> -34000], [x |-> 50000, y |-> 0, z |-> 76000]}

\* what a callback or a download can return; a call that is not made returns nothing
Answers(called) == IF called THEN BOOLEAN ELSE {TRUE}

Downloads(called) == IF called THEN download_wrl_source_results ELSE {NoGeometry}

StepResults(called) == IF called THEN BOOLEAN ELSE {FALSE}

Import ==
    /\ imports < MaxImports
    /\ LET asked == ~export_only /\ confirm_overwrite /\ check_existing_files(fs) # << >>
           has3d == ImporterUuid(fp_model, comp_uuid_3d) # ""
       IN \E co_answer \in Answers(asked), cm_answer \in Answers(confirm_metadata),
             wrl1 \in Downloads(has3d), step_result \in StepResults(has3d),
             vrml_ok \in Answers(has3d) :
            \E wrl2 \in Downloads(has3d /\ wrl1 = NoGeometry) :
              LET r == import_component(fs, co_answer, cm_answer, wrl1, wrl2,
                                        step_result, vrml_ok)
              IN /\ fs' = r.fs
                 /\ last' = r.last
                 /\ calls' = [step |-> calls.step + Count(r.last.events, "download_step"),
                              wrl |-> calls.wrl
                                      + Count(r.last.events, "download_wrl_source")]
                 /\ model_offset' = r.offset
                 /\ model_rotation' = r.rotation
                 /\ calc_calls' = r.calc
    /\ imports' = imports + 1
    /\ op' = "import_component"
    /\ UNCHANGED <<fp_model, comp_uuid_3d, fp_origin, geometry, z_offset_new, z_offset_old>>
    /\ UNCHANGED <<comp_symbols, export_only, use_global, kicad_version, overwrite,
                   confirm_overwrite, confirm_metadata>>
    /\ UNCHANGED <<emitVars, pureVars, tuiVars>>

ImportInit ==
    /\ fp_model \in ImportModels
    /\ comp_uuid_3d \in {"", "u2"}
    /\ fp_origin = <<40000000, 30000000>>
    /\ geometry = ImportGeometry
    /\ op = "none"
    /\ model_offset = NoResult
    /\ model_rotation = NoResult
    /\ calc_calls = << >>
    /\ z_offset_new = NoResult
    /\ z_offset_old = NoResult
    /\ EmitterIdle
    /\ PureIdle
    /\ TuiIdle
    /\ comp_symbols \in BOOLEAN
    /\ export_only \in BOOLEAN
    /\ use_global \in (IF export_only THEN {FALSE} ELSE BOOLEAN)
    /\ kicad_version \in KicadVersions
    /\ overwrite \in BOOLEAN
    /\ confirm_overwrite \in BOOLEAN
    /\ confirm_metadata \in BOOLEAN
    /\ fs = NoFiles
    /\ calls = [step |-> 0, wrl |-> 0]
    /\ imports = 0
    /\ last = NoImport

ImportNext == Import

SpecImport == ImportInit /\ [][ImportNext]_vars

(***************************************************************************)
(* The other front ends that run the pipeline.                             *)
(***************************************************************************)
\* kicad/version.py: the version add_symbol_to_lib takes when none is passed
DEFAULT_KICAD_VERSION == 9

(***************************************************************************)
(* JLCImportTUI._do_import, tui.py:1155-1273.  download_and_save_models    *)
(* (model3d.py) downloads both model files and saves them.                 *)
(***************************************************************************)
TuiImport ==
    /\ imports < MaxImports
    /\ ~export_only
    /\ LET uuid_3d == ImporterUuid(fp_model, comp_uuid_3d)
           has3d == uuid_3d # ""
           f1 == ensure_lib_structure(fs)
           sym_content == IF comp_symbols THEN "sym" ELSE ""
       IN \E wrl \in Downloads(has3d), step_result \in StepResults(has3d),
             vrml_ok \in Answers(has3d) :
            LET sv == IF has3d THEN save_models(f1, step_result, wrl, vrml_ok)
                      ELSE [fs |-> f1, step_path |-> FALSE, wrl_path |-> FALSE]
                model_path == IF ~sv.step_path THEN ""
                              ELSE IF use_global THEN "/lib_dir/lib.3dshapes/name.step"
                              ELSE "${KIPRJMOD}/lib.3dshapes/name.step"
                sf == save_footprint(sv.fs, model_path, overwrite)
                sa == IF comp_symbols
                      THEN add_symbol_to_lib(sf.fs, sym_content, overwrite,
                                             DEFAULT_KICAD_VERSION)
                      ELSE [fs |-> sf.fs, added |-> FALSE]
            IN /\ fs' = update_lib_tables(sa.fs)
               /\ last' = [NoImport EXCEPT
                     !.result = "done",
                     !.events = <<"fetch_full_component", "ensure_lib_structure",
                                  "parse_footprint_shapes">>
                                \o When(fp_model # NoModel, <<"compute_model_transform">>)
                                \o When(has3d, <<"download_and_save_models">>)
                                \o <<"write_footprint", "save_footprint">>
                                \o When(comp_symbols, <<"write_symbol", "add_symbol_to_lib">>)
                                \o <<TableUpdate(use_global)>>,
                     !.log = When(has3d /\ sv.step_path, <<"STEP saved">>)
                             \o When(has3d /\ sv.wrl_path, <<"WRL saved">>)
                             \o When(~has3d, <<"No 3D model available">>)
                             \o <<IF sf.saved THEN "Saved: footprint"
                                  ELSE "Skipped: footprint">>
                             \o When(comp_symbols,
                                     <<IF sa.added THEN "Symbol added" ELSE "Symbol skipped">>)
                             \o When(~comp_symbols, <<"No symbol data available">>)
                             \o <<IF use_global THEN "Global library tables updated."
                                  ELSE "Project library tables updated.">>,
                     !.overwrite = overwrite,
                     !.uuid_3d = uuid_3d,
                     !.step_existed = fs.step,
                     !.wrl_existed = fs.wrl,
                     !.fp_existed = fs.footprint,
                     !.sym_existed = fs.symbol,
                     !.wrl_first = When(has3d, <<wrl>>),
                     !.calc_args = When(fp_model # NoModel, <<NoGeometry>>),
                     !.saved_source = When(has3d, <<wrl>>),
                     !.model_path = model_path,
                     !.sym_content = sym_content]
    /\ IF fp_model # NoModel
       THEN LET t == compute_model_transform(fp_model, fp_origin[1], fp_origin[2], NoGeometry)
            IN /\ model_offset' = t.offset
               /\ model_rotation' = t.rotation
               /\ calc_calls' = <<NoGeometry>>
       ELSE /\ model_offset' = <<0, 0, 0>>
            /\ model_rotation' = <<0, 0, 0>>
            /\ calc_calls' = << >>
    /\ imports' = imports + 1
    /\ op' = "tui_do_import"
    /\ UNCHANGED <<fp_model, comp_uuid_3d, fp_origin, geometry, z_offset_new, z_offset_old>>
    /\ UNCHANGED <<comp_symbols, export_only, use_global, kicad_version, overwrite,
                   confirm_overwrite, confirm_metadata, calls>>
    /\ UNCHANGED <<emitVars, pureVars, tuiVars>>

(***************************************************************************)
(* compare_part, tools/compare_part.py:540-571: the model's uuid comes     *)
(* from the parsed footprint alone; the transform is computed only when    *)
(* the OBJ text arrived and converted.                                     *)
(***************************************************************************)
ComparePart ==
    /\ imports < MaxImports
    /\ LET uuid_3d == IF fp_model # NoModel THEN fp_model.uuid ELSE ""
           has3d == uuid_3d # ""
       IN \E obj_source \in Downloads(has3d), vrml_ok \in Answers(has3d) :
            LET computes == has3d /\ obj_source # NoGeometry /\ vrml_ok
                t == compute_model_transform(fp_model, fp_origin[1], fp_origin[2],
                                             obj_source)
            IN /\ last' = [NoImport EXCEPT
                     !.result = "done",
                     !.events = <<"fetch_full_component", "parse_footprint_shapes">>
                                \o When(has3d, <<"download_wrl_source">>)
                                \o When(has3d /\ obj_source # NoGeometry,
                                        <<"convert_to_vrml">>)
                                \o When(computes, <<"compute_model_transform">>),
                     !.uuid_3d = uuid_3d,
                     !.wrl_first = When(has3d, <<obj_source>>),
                     !.calc_args = When(computes, <<obj_source>>)]
               /\ calls' = [calls EXCEPT !.wrl = @ + (IF has3d THEN 1 ELSE 0)]
               /\ model_offset' = IF computes THEN t.offset ELSE NoResult
               /\ model_rotation' = IF computes THEN t.rotation ELSE NoResult
               /\ calc_calls' = When(computes, <<obj_source>>)
    /\ imports' = imports + 1
    /\ op' = "compare_part"
    /\ UNCHANGED <<fp_model, comp_uuid_3d, fp_origin, geometry, z_offset_new, z_offset_old>>
    /\ UNCHANGED <<comp_symbols, export_only, use_global, kicad_version, overwrite,
                   confirm_overwrite, confirm_metadata, fs>>
    /\ UNCHANGED <<emitVars, pureVars, tuiVars>>

FrontEndsNext ==
    \/ Import
    \/ TuiImport
    \/ ComparePart

\* the front ends side by side: the callers that pass no confirm_metadata
\* callback and take the default KiCad version
FrontEndsInit ==
    /\ ImportInit
    /\ ~confirm_metadata
    /\ kicad_version = DEFAULT_KICAD_VERSION

SpecFrontEnds == FrontEndsInit /\ [][FrontEndsNext]_vars

(***************************************************************************)
(* _build_description, importer.py:24-41.  Texts are sequences of          *)
(* characters.                                                             *)
(***************************************************************************)
Whitespace == {" ", TAB, NL, CR}

RECURSIVE LStripSpace(_)
LStripSpace(t) ==
    IF t # << >> /\ t[1] \in Whitespace THEN LStripSpace(Tail(t)) ELSE t

RECURSIVE RStripSpace(_)
RStripSpace(t) ==
    IF t # << >> /\ t[Len(t)] \in Whitespace
    THEN RStripSpace(SubSeq(t, 1, Len(t) - 1)) ELSE t

\* str.strip()
Strip(t) == LStripSpace(RStripSpace(t))

build_description_title_only(comp) ==
    LET parts == When(comp.manufacturer_part # << >>, <<comp.manufacturer_part>>)
                 \o When(comp.package # << >>, <<comp.package>>)
                 \o When(comp.manufacturer # << >>, <<comp.manufacturer>>)
        desc == IF comp.description = comp.title
                THEN Join(<<";", " ">>, parts) ELSE comp.description
    IN Strip(desc)

build_description(comp) ==
    LET parts == When(comp.manufacturer_part # << >>, <<comp.manufacturer_part>>)
                 \o When(comp.package # << >>, <<comp.package>>)
                 \o When(comp.manufacturer # << >>, <<comp.manufacturer>>)
        desc == IF comp.description = << >> \/ comp.description = comp.title
                THEN Join(<<";", " ">>, parts) ELSE comp.description
    IN Strip(desc)

MaxDescLen == 2

RECURSIVE TextsUpTo(_, _)
TextsUpTo(chars, n) ==
    IF n = 0 THEN {<< >>}
    ELSE LET shorter == TextsUpTo(chars, n - 1)
         IN shorter \cup {Append(t, c) : t \in {u \in shorter : Len(u) = n - 1},
                                         c \in chars}

\* descriptions and titles, with and without surrounding blanks
DescTexts == TextsUpTo({"t", " "}, MaxDescLen)

\* values of manufacturer_part, package, manufacturer
PartTexts == {<< >>, <<"p">>, <<" ">>, <<"p", " ">>}

Components ==
    [description : DescTexts, title : DescTexts, manufacturer_part : PartTexts,
     package : PartTexts, manufacturer : PartTexts]

BuildDescription ==
    /\ ~call_done
    /\ result' = build_description(args)
    /\ call_done' = TRUE
    /\ UNCHANGED <<args, placeVars, emitVars, impVars, tuiVars>>

DescriptionInit ==
    /\ args \in Components
    /\ result = << >>
    /\ call_done = FALSE
    /\ PlacementIdle
    /\ EmitterIdle
    /\ ImportIdle
    /\ TuiIdle

DescriptionNext == BuildDescription

SpecDescription == DescriptionInit /\ [][DescriptionNext]_vars

(***************************************************************************)
(* The Shape Record Parser (easyeda/parser.py, spec 4.1): each shape       *)
(* string is split on "~" into a type tag and positional fields; a record  *)
(* with an unknown tag or the wrong number of fields is dropped; SVGNODE   *)
(* carries a JSON payload instead of fields.  The schema table of the      *)
(* model has two tags, PAD (number, layer) and P (number).                 *)
(***************************************************************************)
TILDE == "~"

PAD == <<"P", "A", "D">>
PIN == <<"P">>
SVGNODE == <<"S", "V", "G", "N", "O", "D", "E">>

\* the fixed table {tag -> number of positional fields}
Schema == [t \in {PAD, PIN} |-> IF t = PAD THEN 2 ELSE 1]

RECURSIVE Split(_, _)
\* t.split(sep) for a single character sep
Split(t, sep) ==
    IF ~Contains(t, sep) THEN <<t>>
    ELSE LET i == CHOOSE j \in 1..Len(t) : t[j] = sep /\ \A l \in 1..(j - 1) : t[l] # sep
         IN <<SubSeq(t, 1, i - 1)>> \o Split(SubSeq(t, i + 1, Len(t)), sep)

\* t.startswith(p)
StartsWith(t, p) == Len(t) >= Len(p) /\ SubSeq(t, 1, Len(p)) = p

(***************************************************************************)
(* JSON text is a sequence of tokens: the punctuation and whole string     *)
(* literals.  json.loads for the values { }, {"k": value}, [ ] and "s";    *)
(* the decoded value is [kind, key, str, sub], sub the member's value.     *)
(***************************************************************************)
JsonPunct == {"{", "}", "[", "]", ":"}

NoValue == [ok |-> FALSE, kind |-> "", key |-> "", str |-> "", sub |-> << >>, next |-> 0]

RECURSIVE JsonValue(_, _)
JsonValue(t, i) ==
    IF i > Len(t) THEN NoValue
    ELSE IF t[i] = "[" THEN
        IF i + 1 <= Len(t) /\ t[i + 1] = "]"
        THEN [ok |-> TRUE, kind |-> "list", key |-> "", str |-> "", sub |-> << >>,
              next |-> i + 2]
        ELSE NoValue
    ELSE IF t[i] = "{" THEN
        IF i + 1 <= Len(t) /\ t[i + 1] = "}"
        THEN [ok |-> TRUE, kind |-> "dict", key |-> "", str |-> "", sub |-> << >>,
              next |-> i + 2]
        ELSE IF i + 2 <= Len(t) /\ t[i + 1] \notin JsonPunct /\ t[i + 2] = ":"
        THEN LET v == JsonValue(t, i + 3)
             IN IF v.ok /\ v.next <= Len(t) /\ t[v.next] = "}"
                THEN [ok |-> TRUE, kind |-> "dict", key |-> t[i + 1], str |-> "",
                      sub |-> <<v>>, next |-> v.next + 1]
                ELSE NoValue
        ELSE NoValue
    ELSE IF t[i] \notin JsonPunct
    THEN [ok |-> TRUE, kind |-> "str", key |-> "", str |-> t[i], sub |-> << >>,
          next |-> i + 1]
    ELSE NoValue

\* json.loads(t): JSONDecodeError is ok = FALSE
json_loads(t) ==
    LET v == JsonValue(t, 1)
    IN IF v.ok /\ v.next = Len(t) + 1 THEN v ELSE NoValue

\* d.get(key, default) of a decoded dict
DictHas(v, key) == v.kind = "dict" /\ v.sub # << >> /\ v.key = key

\* a model reference without a model
EmptyModelRef == [uuid |-> ""]

\* the SVGNODE payload decoded tolerantly: a payload that is not JSON, or
\* not the expected object, is an empty model reference
ModelRef(payload) ==
    LET v == json_loads(payload)
    IN IF v.ok /\ DictHas(v, "attrs") /\ DictHas(v.sub[1], "uuid")
          /\ v.sub[1].sub[1].kind = "str"
       THEN [uuid |-> v.sub[1].sub[1].str]
       ELSE EmptyModelRef

\* one shape string: the record it parses to, or ok = FALSE when dropped
ShapeRecord(text) ==
    LET parts == Split(text, TILDE)
        tag == parts[1]
    IN IF StartsWith(text, SVGNODE \o <<TILDE>>)
       THEN [ok |-> TRUE, tag |-> SVGNODE, fields |-> << >>,
             model |-> ModelRef(SubSeq(text, Len(SVGNODE) + 2, Len(text)))]
       ELSE IF tag \in DOMAIN Schema /\ Len(parts) - 1 = Schema[tag]
       THEN [ok |-> TRUE, tag |-> tag, fields |-> Tail(parts), model |-> EmptyModelRef]
       ELSE [ok |-> FALSE, tag |-> tag, fields |-> << >>, model |-> EmptyModelRef]

\* parse_footprint_shapes / parse_symbol_shapes: the records kept, in input
\* order, and the counts reported upward
parse_shapes(shapes) ==
    LET recs == [i \in 1..Len(shapes) |-> ShapeRecord(shapes[i])]
        kept == SelectSeq(recs, LAMBDA r : r.ok)
        models == SelectSeq(kept, LAMBDA r : r.tag = SVGNODE)
    IN [raised |-> FALSE,
        records |-> kept,
        pads |-> SelectSeq(kept, LAMBDA r : r.tag = PAD),
        pins |-> SelectSeq(kept, LAMBDA r : r.tag = PIN),
        model |-> IF models = << >> THEN EmptyModelRef ELSE models[1].model,
        dropped |-> Len(shapes) - Len(kept)]

(***************************************************************************)
(* fetch_test_data, tools/fetch_test_data.py:39-54: the model uuid looked  *)
(* up in the SVGNODE shapes when the component carries none.               *)
(***************************************************************************)
\* one SVGNODE shape, fetch_test_data.py:44-54: the uuid found (or ""), and
\* whether an exception left the try block
SvgnodeUuidUncaught(shape) ==
    LET v == json_loads(SubSeq(shape, Len(SVGNODE) + 2, Len(shape)))
    IN IF ~v.ok \/ v.kind # "dict" THEN [uuid |-> "", raised |-> TRUE]
       ELSE IF ~DictHas(v, "attrs") THEN [uuid |-> "", raised |-> FALSE]
       ELSE IF v.sub[1].kind # "dict" THEN [uuid |-> "", raised |-> TRUE]
       ELSE IF ~DictHas(v.sub[1], "uuid") THEN [uuid |-> "", raised |-> FALSE]
       ELSE [uuid |-> v.sub[1].sub[1].str, raised |-> FALSE]

SvgnodeUuid(shape) ==
    LET v == json_loads(SubSeq(shape, Len(SVGNODE) + 2, Len(shape)))
    IN IF ~v.ok \/ v.kind # "dict" THEN [uuid |-> "", raised |-> FALSE]
       ELSE IF ~DictHas(v, "attrs") THEN [uuid |-> "", raised |-> FALSE]
       ELSE IF v.sub[1].kind # "dict" THEN [uuid |-> "", raised |-> FALSE]
       ELSE IF ~DictHas(v.sub[1], "uuid") THEN [uuid |-> "", raised |-> FALSE]
       ELSE [uuid |-> v.sub[1].sub[1].str, raised |-> FALSE]

RECURSIVE fetch_uuid(_, _)
\* the loop of fetch_test_data.py:41-54 from shape i on
fetch_uuid(shapes, i) ==
    IF i > Len(shapes) THEN [uuid |-> "", raised |-> FALSE]
    ELSE IF StartsWith(shapes[i], SVGNODE \o <<TILDE>>)
    THEN LET r == SvgnodeUuid(shapes[i])
         IN IF r.raised \/ r.uuid # "" THEN r ELSE fetch_uuid(shapes, i + 1)
    ELSE fetch_uuid(shapes, i + 1)

\* the node names and fixed attributes of the written trees
SYMBOL_NAME == <<"s", "y", "m", "b", "o", "l">>

PIN_NAME == <<"p", "i", "n">>

UNSPECIFIED == <<"u", "n", "s", "p", "e", "c", "i", "f", "i", "e", "d">>

LINE_STYLE == <<"l", "i", "n", "e">>

NUMBER_NAME == <<"n", "u", "m", "b", "e", "r">>

FOOTPRINT_NAME == <<"f", "o", "o", "t", "p", "r", "i", "n", "t">>

PAD_NAME == <<"p", "a", "d">>

SMD == <<"s", "m", "d">>

RECT == <<"r", "e", "c", "t">>

(***************************************************************************)
(* The Symbol Writer and the Footprint Writer (kicad/symbol_writer.py,     *)
(* kicad/footprint_writer.py, spec 4.5): each builds a tree with one child *)
(* per pin (pad), in the order of symbol.pins (footprint.pads), and        *)
(* renders it with SExpr.render.                                           *)
(***************************************************************************)
\* the heap of the tree (root (child attrs (leaf number)) ...), node 1 the root
WriterTree(root, child, attrs, leaf, numbers) ==
    [k \in 1..(1 + 2 * Len(numbers)) |->
        IF k = 1
        THEN [name |-> root, items |-> [i \in 1..Len(numbers) |-> NodeItem(2 * i)]]
        ELSE IF k % 2 = 0
        THEN [name |-> child,
              items |-> [j \in 1..Len(attrs) |-> StrItem(attrs[j])]
                          \o <<NodeItem(k + 1)>>]
        ELSE [name |-> leaf, items |-> <<StrItem(numbers[(k - 1) \div 2])>>]]

\* write_symbol(symbol, ...): (symbol (pin unspecified line (number N)) ...)
write_symbol(pins) ==
    render(WriterTree(SYMBOL_NAME, PIN_NAME,
                      <<UNSPECIFIED, LINE_STYLE>>, NUMBER_NAME,
                      [i \in 1..Len(pins) |-> pins[i].fields[1]]), 1, 0)

\* write_footprint(footprint, ...): (footprint (pad smd rect (number N)) ...)
write_footprint(pads) ==
    render(WriterTree(FOOTPRINT_NAME, PAD_NAME,
                      <<SMD, RECT>>, NUMBER_NAME,
                      [i \in 1..Len(pads) |-> pads[i].fields[1]]), 1, 0)

RECURSIVE MergeByNumber(_, _)
\* the records whose number was not seen before
MergeByNumber(recs, seen) ==
    IF recs = << >> THEN << >>
    ELSE IF Head(recs).fields[1] \in seen THEN MergeByNumber(Tail(recs), seen)
    ELSE <<Head(recs)>> \o MergeByNumber(Tail(recs), seen \cup {Head(recs).fields[1]})

ImporterSymbolMerged(sym_shapes) ==
    write_symbol(MergeByNumber(parse_shapes(sym_shapes).pins, {}))

\* import_component, importer.py:176-194: the symbol text of the parsed shapes
ImporterSymbol(sym_shapes) == write_symbol(parse_shapes(sym_shapes).pins)

\* import_component and its back ends, importer.py:153-154, 262, 362: the
\* footprint text of the parsed shapes
ImporterFootprint(fp_shapes) == write_footprint(parse_shapes(fp_shapes).pads)

MaxShapes == 2
MaxFields == 2

FieldTexts == {<<"1">>, <<"2">>}

\* tag~field~...~field
ShapeText(tag, fields) == Join(<<TILDE>>, <<tag>> \o fields)

ShapeTags == {PAD, PIN, <<"X">>}

FieldLists == UNION {[1..n -> FieldTexts] : n \in 0..MaxFields}

\* JSON payloads: decodable ones with and without a uuid, and broken ones
DecodablePayloads ==
    {<<"{", "attrs", ":", "{", "uuid", ":", "u1", "}", "}">>,
     <<"{", "attrs", ":", "{", "}", "}">>,
     <<"{", "attrs", ":", "u1", "}">>,
     <<"{", "}">>,
     <<"[", "]">>}

BrokenPayloads ==
    {<<"{", "attrs", ":", "{", "uuid", ":", "u1", "}">>,
     <<"{", "attrs", "}">>}

ShapeStrings ==
    {ShapeText(tag, fields) : tag \in ShapeTags, fields \in FieldLists}
    \cup {SVGNODE \o <<TILDE>> \o payload : payload \in DecodablePayloads \cup BrokenPayloads}

ShapeLists == UNION {[1..n -> ShapeStrings] : n \in 0..MaxShapes}

\* parse_footprint_shapes / parse_symbol_shapes and the writers on their
\* results, importer.py:153-155, 176-194, and the uuid lookup of
\* fetch_test_data on the same shapes
ParseShapes ==
    /\ ~call_done
    /\ result' = [parsed |-> parse_shapes(args), fetched |-> fetch_uuid(args, 1),
                  symbol_text |-> ImporterSymbol(args),
                  footprint_text |-> ImporterFootprint(args)]
    /\ call_done' = TRUE
    /\ UNCHANGED <<args, placeVars, emitVars, impVars, tuiVars>>

ParserInit ==
    /\ args \in ShapeLists
    /\ result = << >>
    /\ call_done = FALSE
    /\ PlacementIdle
    /\ EmitterIdle
    /\ ImportIdle
    /\ TuiIdle

ParserNext == ParseShapes

SpecParser == ParserInit /\ [][ParserNext]_vars

(***************************************************************************)
(* The Coordinate Normalizer (spec 4.2).  Coordinates are binary floating  *)
(* point numbers m * 2^e with a significand of SigBits bits; every         *)
(* operation rounds its exact result to nearest, ties to even, as IEEE     *)
(* arithmetic does.  A number is kept with m odd (or m = 0, e = 0).        *)
(***************************************************************************)
SigBits == 4

RECURSIVE Canon(_, _)
Canon(m, e) ==
    IF m = 0 THEN [m |-> 0, e |-> 0]
    ELSE IF m % 2 = 0 THEN Canon(m \div 2, e + 1)
    ELSE [m |-> m, e |-> e]

Sgn(n) == IF n < 0 THEN -1 ELSE IF n > 0 THEN 1 ELSE 0

\* (num / den) * 2^e rounded to SigBits significant bits, den > 0
RoundRat(num, den, e) ==
    IF num = 0 THEN Canon(0, 0)
    ELSE LET a == Abs(num)
             Scaled(sh) == IF sh >= 0 THEN a * Pow2(sh) ELSE a
             Denom(sh) == IF sh >= 0 THEN den ELSE den * Pow2(-sh)
             sh == CHOOSE c \in -12..12 :
                       /\ Pow2(SigBits - 1) * Denom(c) <= Scaled(c)
                       /\ Scaled(c) < Pow2(SigBits) * Denom(c)
             m0 == Scaled(sh) \div Denom(sh)
             rem == Scaled(sh) - m0 * Denom(sh)
             m == IF 2 * rem > Denom(sh) \/ (2 * rem = Denom(sh) /\ m0 % 2 = 1)
                  THEN m0 + 1 ELSE m0
         IN Canon(Sgn(num) * m, e - sh)

FNeg(a) == [m |-> -a.m, e |-> a.e]

FAdd(a, b) ==
    LET emin == IF a.e < b.e THEN a.e ELSE b.e
    IN RoundRat(a.m * Pow2(a.e - emin) + b.m * Pow2(b.e - emin), 1, emin)

FSub(a, b) == FAdd(a, FNeg(b))

FMul(a, b) == RoundRat(a.m * b.m, 1, a.e + b.e)

\* a / b, b # 0
FDiv(a, b) == RoundRat(a.m * Sgn(b.m), Abs(b.m), a.e - b.e)

\* x' = (x - ox) * k, y' stays unflipped
normalize_no_flip(p, origin, k) ==
    [x |-> FMul(FSub(p.x, origin.x), k),
     y |-> FMul(FSub(p.y, origin.y), k),
     rotation |-> p.rotation]

\* x' = (x - ox) * k, y' = -(y - oy) * k; the rotation is not touched
normalize(p, origin, k) ==
    [x |-> FMul(FSub(p.x, origin.x), k),
     y |-> FNeg(FMul(FSub(p.y, origin.y), k)),
     rotation |-> p.rotation]

\* the inverse map: x = x' / k + ox, y = -y' / k + oy
denormalize(q, origin, k) ==
    [x |-> FAdd(FDiv(q.x, k), origin.x),
     y |-> FAdd(FDiv(FNeg(q.y), k), origin.y),
     rotation |-> q.rotation]

MaxCoord == 3

Coords == {Canon(n, 0) : n \in -MaxCoord..MaxCoord}

\* unit scales: 1, 1/4, 7/8, 3 and -3/2
Scales == {Canon(1, 0), Canon(1, -2), Canon(7, -3), Canon(3, 0), Canon(-3, -1)}

Rotations == {0, 90}

NormalizerInputs ==
    [p : [x : Coords, y : Coords, rotation : Rotations],
     origin : [x : Coords, y : Coords],
     k : Scales]

\* a point normalized and mapped back with the same origin and scale
Normalize ==
    /\ ~call_done
    /\ result' = [normalized |-> normalize(args.p, args.origin, args.k),
                  restored |-> denormalize(normalize(args.p, args.origin, args.k),
                                           args.origin, args.k)]
    /\ call_done' = TRUE
    /\ UNCHANGED <<args, placeVars, emitVars, impVars, tuiVars>>

NormalizerInit ==
    /\ args \in NormalizerInputs
    /\ result = << >>
    /\ call_done = FALSE
    /\ PlacementIdle
    /\ EmitterIdle
    /\ ImportIdle
    /\ TuiIdle

NormalizerNext == Normalize

SpecNormalizer == NormalizerInit /\ [][NormalizerNext]_vars

(***************************************************************************)
(* The terminal user interface (tui.py, class JLCImportTUI).               *)
(*                                                                         *)
(* Event handlers and call_from_thread callbacks run on the one main       *)
(* thread, one at a time: each is one action.  A method decorated with     *)
(* @work(thread=True) runs in a thread of its own: each of its accesses to *)
(* the application's fields and each of its call_from_thread calls is a    *)
(* step of its own, so that main-thread handlers and other workers         *)
(* interleave with it.  The status log, the detail labels, the package     *)
(* filter (left at "All") and the set of imported ids only feed the        *)
(* display and are left out.                                               *)
(***************************************************************************)

\* the number of user events of one behaviour
MaxUserEvents == 4

\* the number of worker threads started in one behaviour
MaxWorkers == 2

\* rows of search_components(keyword)["results"], tui.py:875-876
RowC1 == [lcsc |-> "C1", type |-> "Basic", stock |-> 50, url |-> "https://lcsc/C1"]

RowC2 == [lcsc |-> "C2", type |-> "Extended", stock |-> 500, url |-> "https://lcsc/C2"]

RowC3 == [lcsc |-> "C3", type |-> "Basic", stock |-> 0, url |-> ""]

\* what the search service answers, in the order it answers
SearchResponses == {<< >>, <<RowC1, RowC2>>, <<RowC3, RowC1, RowC2>>}

\* the keywords typed into #search-input, stripped
Keywords == {"", "resistor"}

\* fetch_product_image(lcsc_url), tui.py:1089: the image of a product page
ProductImage == [u \in {RowC1.url, RowC2.url} |->
                    IF u = RowC1.url THEN "C1.jpg" ELSE "C2.jpg"]

\* Python's order of the LCSC numbers as strings
LcscOrder == [n \in {"C1", "C2", "C3"} |-> CASE n = "C1" -> 1 [] n = "C2" -> 2 [] n = "C3" -> 3]

\* key_map, tui.py:1025-1032 (columns 0 and 3), and the key of tui.py:878
SortKey(col, r) == IF col = 0 THEN LcscOrder[r.lcsc] ELSE r.stock

\* the columns whose headers are clicked
Columns == {0, 3}

\* list.sort(key=..., reverse=...): stable, equal keys keep their order
RECURSIVE Sort(_, _, _)
Sort(rows, col, reverse) ==
    IF rows = << >> THEN << >>
    ELSE LET n == Len(rows)
             r == rows[n]
             sorted == Sort(SubSeq(rows, 1, n - 1), col, reverse)
             After(e) == IF reverse THEN SortKey(col, e) < SortKey(col, r)
                                    ELSE SortKey(col, e) > SortKey(col, r)
             later == {i \in 1..Len(sorted) : After(sorted[i])}
             at == IF later = {} THEN Len(sorted) + 1
                   ELSE CHOOSE i \in later : \A j \in later : i <= j
         IN SubSeq(sorted, 1, at - 1) \o <<r>> \o SubSeq(sorted, at, Len(sorted))

\* _get_type_filter, tui.py:814-821
get_type_filter(pressed_index) ==
    IF pressed_index = 1 THEN "Basic"
    ELSE IF pressed_index = 2 THEN "Extended" ELSE ""

\* kicad_jlcimport.api.filter_by_type: the rows of the given type, all rows for ""
filter_by_type(rows, type) ==
    LET Keep(r) == type = "" \/ r.type = type IN SelectSeq(rows, Keep)

\* kicad_jlcimport.api.filter_by_min_stock: the rows with at least that stock
filter_by_min_stock(rows, stock) ==
    LET Keep(r) == r.stock >= stock IN SelectSeq(rows, Keep)

\* _MIN_STOCK_OPTIONS, tui.py:705-713: the options offered here
MinStockOptions == {0, 1, 100}

\* _apply_filters, tui.py:939-946, without resetting anything else
apply_filters(raw, pressed_index, stock) ==
    filter_by_min_stock(filter_by_type(raw, get_type_filter(pressed_index)), stock)

\* kicad_jlcimport.api.validate_lcsc_id: a C followed by digits, else ValueError
PartNumbers == {"C1", "C2", "C3", "C9"}

\* what the user types into #part-input
TypedParts == {"", "C9", "x"}

\* self._project_dir and get_global_lib_dir()
ProjectDir == "/project"

GlobalLibDir == "/global"

\* a worker thread: the method it runs, where it is, and its local variables
Worker(id, kind, pc) ==
    [id |-> id, kind |-> kind, pc |-> pc, request_id |-> 0, url |-> "",
     img_data |-> "None", keyword |-> "", results |-> << >>, lib_dir |-> "",
     outcome |-> ""]

WorkersAt(kind, pc) == {w \in workers : w.kind = kind /\ w.pc = pc}

\* the worker moves on to pc, or ends
Goto(w, pc) == (workers \ {w}) \cup {[w EXCEPT !.pc = pc]}

Ends(w) == workers \ {w}

UserEvent ==
    /\ user_events < MaxUserEvents
    /\ user_events' = user_events + 1

\* the variables of the results list
listVars == <<raw_search_results, search_results, table, sort_col, sort_ascending,
              selected_index, selected_row, type_filter, min_stock>>

\* the variables of the detail pane
detailVars == <<image_request_id, detail_image_data, detail_image>>

\* the buttons
buttonVars == <<import_btn_disabled, detail_import_btn_disabled, search_btn_disabled>>

otherVars == <<placeVars, emitVars, impVars, pureVars>>

\* ---- the detail pane ----

\* on_data_table_row_selected, tui.py:1040-1082: the user clicks row row_idx of
\* the table as it is displayed
on_data_table_row_selected(row_idx) ==
    /\ UserEvent
    /\ IF row_idx < 0 \/ row_idx >= Len(search_results)
       THEN UNCHANGED <<selected_index, selected_row, part_input, detail_import_btn_disabled,
                        detailVars, workers, spawned>>
       ELSE LET r == search_results[row_idx + 1]
                request_id == image_request_id + 1
            IN /\ selected_index' = row_idx
               /\ selected_row' = table[row_idx + 1]
               /\ part_input' = r.lcsc
               /\ detail_import_btn_disabled' = FALSE
               /\ image_request_id' = request_id
               /\ UNCHANGED detail_image_data
               /\ IF r.url # ""
                  THEN /\ spawned < MaxWorkers
                       /\ detail_image' = "loading"
                       /\ spawned' = spawned + 1
                       /\ workers' = workers \cup
                            {[Worker(spawned + 1, "image", "fetch")
                                EXCEPT !.request_id = request_id, !.url = r.url]}
                  ELSE /\ detail_image' = "None"
                       /\ UNCHANGED <<workers, spawned>>
    /\ UNCHANGED <<raw_search_results, search_results, table, sort_col, sort_ascending,
                   type_filter, min_stock, import_btn_disabled, search_btn_disabled, gallery>>
    /\ UNCHANGED otherVars

\* _fetch_detail_image, tui.py:1084-1092: the fetch returns an image or raises
\* (img_data stays None), then the worker compares the request ids
fetch_detail_image(w) ==
    /\ w \in WorkersAt("image", "fetch")
    /\ \E img_data \in {ProductImage[w.url], "None"} :
          LET v == [w EXCEPT !.img_data = img_data]
          IN IF image_request_id = w.request_id
             THEN workers' = (workers \ {w}) \cup {[v EXCEPT !.pc = "store"]}
             ELSE workers' = Ends(w)
    /\ UNCHANGED <<listVars, part_input, detailVars, buttonVars, gallery, spawned, user_events>>
    /\ UNCHANGED otherVars

\* _fetch_detail_image, tui.py:1093: self._detail_image_data = img_data
store_detail_image_data(w) ==
    /\ w \in WorkersAt("image", "store")
    /\ detail_image_data' = w.img_data
    /\ workers' = Goto(w, "call")
    /\ UNCHANGED <<listVars, part_input, image_request_id, detail_image, buttonVars,
                   gallery, spawned, user_events>>
    /\ UNCHANGED otherVars

\* _fetch_detail_image, tui.py:1094, and _set_detail_image, tui.py:1096-1100, run
\* on the main thread by call_from_thread
set_detail_image(w) ==
    /\ w \in WorkersAt("image", "call")
    /\ detail_image' = IF image_request_id # w.request_id THEN detail_image ELSE w.img_data
    /\ workers' = Ends(w)
    /\ UNCHANGED <<listVars, part_input, image_request_id, detail_image_data, buttonVars,
                   gallery, spawned, user_events>>
    /\ UNCHANGED otherVars

\* ---- searching, filtering and sorting ----

\* on_input_submitted, on_button_pressed and action_do_search, tui.py:827-851: Enter
\* in the search input, the Search button or F5 start _do_search in a new thread
do_search(trigger, keyword) ==
    /\ UserEvent
    /\ trigger = "search-btn" => ~search_btn_disabled
    /\ spawned < MaxWorkers
    /\ spawned' = spawned + 1
    /\ workers' = workers \cup
          {[Worker(spawned + 1, "search", "keyword") EXCEPT !.keyword = keyword]}
    /\ UNCHANGED <<listVars, part_input, detailVars, buttonVars, gallery>>
    /\ UNCHANGED otherVars

\* _do_search, tui.py:865-868: nothing to search for
do_search_keyword(w) ==
    /\ w \in WorkersAt("search", "keyword")
    /\ workers' = IF w.keyword = "" THEN Ends(w) ELSE Goto(w, "disable")
    /\ UNCHANGED <<listVars, part_input, detailVars, buttonVars, gallery, spawned, user_events>>
    /\ UNCHANGED otherVars

\* _do_search, tui.py:870-873: the Search button is disabled on the main thread
do_search_disable(w) ==
    /\ w \in WorkersAt("search", "disable")
    /\ search_btn_disabled' = TRUE
    /\ workers' = Goto(w, "request")
    /\ UNCHANGED <<listVars, part_input, detailVars, import_btn_disabled,
                   detail_import_btn_disabled, gallery, spawned, user_events>>
    /\ UNCHANGED otherVars

\* _do_search, tui.py:875-878 and 894-899: the request returns rows, which are
\* sorted by stock, or raises
search_components(w) ==
    /\ w \in WorkersAt("search", "request")
    /\ \/ \E results \in SearchResponses :
             workers' = (workers \ {w}) \cup
                 {[w EXCEPT !.pc = "raw_search_results", !.outcome = "ok",
                            !.results = Sort(results, 3, TRUE)]}
       \/ \E e \in {"APIError", "Exception"} :
             workers' = (workers \ {w}) \cup {[w EXCEPT !.pc = "finally", !.outcome = e]}
    /\ UNCHANGED <<listVars, part_input, detailVars, buttonVars, gallery, spawned, user_events>>
    /\ UNCHANGED otherVars

\* _do_search, tui.py:881-884: four assignments made from the worker thread
do_search_store(w) ==
    /\ w \in workers
    /\ w.kind = "search"
    /\ \/ /\ w.pc = "raw_search_results"
          /\ raw_search_results' = w.results
          /\ workers' = Goto(w, "sort_col")
          /\ UNCHANGED <<sort_col, sort_ascending, selected_index, selected_row>>
       \/ /\ w.pc = "sort_col"
          /\ sort_col' = 3
          /\ workers' = Goto(w, "sort_ascending")
          /\ UNCHANGED <<raw_search_results, sort_ascending, selected_index, selected_row>>
       \/ /\ w.pc = "sort_ascending"
          /\ sort_ascending' = FALSE
          /\ workers' = Goto(w, "selected_index")
          /\ UNCHANGED <<raw_search_results, sort_col, selected_index, selected_row>>
       \/ /\ w.pc = "selected_index"
          /\ selected_index' = -1
          /\ selected_row' = NoRow
          /\ workers' = Goto(w, "apply_filters")
          /\ UNCHANGED <<raw_search_results, sort_col, sort_ascending>>
    /\ UNCHANGED <<search_results, table, type_filter, min_stock, part_input, detailVars,
                   buttonVars, gallery, spawned, user_events>>
    /\ UNCHANGED otherVars

\* _do_search, tui.py:886-887: _apply_filters on the main thread
do_search_apply_filters(w) ==
    /\ w \in WorkersAt("search", "apply_filters")
    /\ search_results' = apply_filters(raw_search_results, type_filter, min_stock)
    /\ workers' = Goto(w, "repopulate")
    /\ UNCHANGED <<raw_search_results, table, sort_col, sort_ascending, selected_index,
                   selected_row, type_filter, min_stock, part_input, detailVars,
                   buttonVars, gallery, spawned, user_events>>
    /\ UNCHANGED otherVars

\* _do_search, tui.py:888-893: _repopulate_results (tui.py:983-999) on the main thread
do_search_repopulate(w) ==
    /\ w \in WorkersAt("search", "repopulate")
    /\ table' = search_results
    /\ workers' = Goto(w, "finally")
    /\ UNCHANGED <<raw_search_results, search_results, sort_col, sort_ascending,
                   selected_index, selected_row, type_filter, min_stock, part_input,
                   detailVars, buttonVars, gallery, spawned, user_events>>
    /\ UNCHANGED otherVars

\* _do_search, tui.py:900-904: the Search button is enabled on the main thread
do_search_finally(w) ==
    /\ w \in WorkersAt("search", "finally")
    /\ search_btn_disabled' = FALSE
    /\ workers' = Ends(w)
    /\ UNCHANGED <<listVars, part_input, detailVars, import_btn_disabled,
                   detail_import_btn_disabled, gallery, spawned, user_events>>
    /\ UNCHANGED otherVars

\* on_select_changed, tui.py:948-953: another minimum stock is chosen
on_select_changed(value) ==
    /\ UserEvent
    /\ value # min_stock
    /\ min_stock' = value
    /\ IF raw_search_results # << >>
       THEN /\ search_results' = apply_filters(raw_search_results, type_filter, value)
            /\ table' = search_results'
       ELSE UNCHANGED <<search_results, table>>
    /\ UNCHANGED <<raw_search_results, sort_col, sort_ascending, selected_index, selected_row,
                   type_filter, part_input, detailVars, buttonVars, gallery, workers, spawned>>
    /\ UNCHANGED otherVars

\* on_radio_set_changed, tui.py:955-960: another type filter is pressed
on_radio_set_changed(pressed_index) ==
    /\ UserEvent
    /\ pressed_index # type_filter
    /\ type_filter' = pressed_index
    /\ IF raw_search_results # << >>
       THEN /\ search_results' = apply_filters(raw_search_results, pressed_index, min_stock)
            /\ table' = search_results'
       ELSE UNCHANGED <<search_results, table>>
    /\ UNCHANGED <<raw_search_results, sort_col, sort_ascending, selected_index, selected_row,
                   min_stock, part_input, detailVars, buttonVars, gallery, workers, spawned>>
    /\ UNCHANGED otherVars

\* on_data_table_header_selected, tui.py:1016-1036: a column header is clicked
on_data_table_header_selected(col_idx) ==
    /\ UserEvent
    /\ sort_col' = col_idx
    /\ sort_ascending' = IF col_idx = sort_col THEN ~sort_ascending ELSE col_idx \notin {2, 3}
    /\ search_results' = Sort(search_results, col_idx, ~sort_ascending')
    /\ table' = search_results'
    /\ UNCHANGED <<raw_search_results, selected_index, selected_row, type_filter, min_stock,
                   part_input, detailVars, buttonVars, gallery, workers, spawned>>
    /\ UNCHANGED otherVars

\* action_gallery, tui.py:853-857, and GalleryScreen.__init__, tui.py:440-443
action_gallery ==
    /\ UserEvent
    /\ gallery' = IF search_results # << >>
                  THEN [results |-> search_results,
                        index |-> IF selected_index > 0 THEN selected_index ELSE 0]
                  ELSE gallery
    /\ UNCHANGED <<listVars, part_input, detailVars, buttonVars, workers, spawned>>
    /\ UNCHANGED otherVars

\* ---- importing ----

\* the user types into #part-input
edit_part_input(value) ==
    /\ UserEvent
    /\ value # part_input
    /\ part_input' = value
    /\ UNCHANGED <<listVars, detailVars, buttonVars, gallery, workers, spawned>>
    /\ UNCHANGED otherVars

\* on_button_pressed, tui.py:837-838, and _do_import_action, tui.py:1104-1135: one
\* of the two Import buttons is pressed with the destination radio on dest
do_import_action(button_id, dest) ==
    /\ UserEvent
    /\ button_id = "import-btn" => ~import_btn_disabled
    /\ button_id = "detail-import-btn" => ~detail_import_btn_disabled
    /\ LET lib_dir == IF dest = 1 THEN GlobalLibDir ELSE ProjectDir
       IN IF part_input = "" \/ part_input \notin PartNumbers \/ lib_dir = ""
          THEN UNCHANGED <<import_btn_disabled, detail_import_btn_disabled, workers, spawned>>
          ELSE /\ spawned < MaxWorkers
               /\ import_btn_disabled' = TRUE
               /\ detail_import_btn_disabled' = TRUE
               /\ spawned' = spawned + 1
               /\ workers' = workers \cup
                     {[Worker(spawned + 1, "import", "import") EXCEPT !.lib_dir = lib_dir]}
    /\ UNCHANGED <<listVars, part_input, detailVars, search_btn_disabled, gallery>>
    /\ UNCHANGED otherVars

\* _run_import, tui.py:1139-1146: _do_import (tui.py:1155-1273) writes the library
\* and returns, or raises
run_import(w) ==
    /\ w \in WorkersAt("import", "import")
    /\ \E outcome \in {"ok", "APIError", "Exception"} :
          workers' = (workers \ {w}) \cup
             {[w EXCEPT !.outcome = outcome,
                        !.pc = IF outcome = "ok" THEN "repopulate" ELSE "finally"]}
    /\ UNCHANGED <<listVars, part_input, detailVars, buttonVars, gallery, spawned, user_events>>
    /\ UNCHANGED otherVars

\* _do_import, tui.py:1271-1272: _repopulate_results on the main thread
run_import_repopulate(w) ==
    /\ w \in WorkersAt("import", "repopulate")
    /\ table' = search_results
    /\ workers' = Goto(w, "finally")
    /\ UNCHANGED <<raw_search_results, search_results, sort_col, sort_ascending,
                   selected_index, selected_row, type_filter, min_stock, part_input,
                   detailVars, buttonVars, gallery, spawned, user_events>>
    /\ UNCHANGED otherVars

\* the buttons would be enabled unless the import raised something other than APIError
ImportFinallyUnlessException(w) == w.outcome # "Exception"

\* _run_import, tui.py:1147: the finally block runs however the try block ended
ImportFinallyAlways(w) == TRUE

\* _run_import, tui.py:1147-1153: the two Import buttons are enabled on the main
\* thread, one call_from_thread each
run_import_finally(w) ==
    /\ w \in workers
    /\ w.kind = "import"
    /\ \/ /\ w.pc = "finally"
          /\ import_btn_disabled' = IF ImportFinallyAlways(w) THEN FALSE ELSE import_btn_disabled
          /\ workers' = Goto(w, "finally_detail")
          /\ UNCHANGED detail_import_btn_disabled
       \/ /\ w.pc = "finally_detail"
          /\ detail_import_btn_disabled' =
                IF ImportFinallyAlways(w) THEN FALSE ELSE detail_import_btn_disabled
          /\ workers' = Ends(w)
          /\ UNCHANGED import_btn_disabled
    /\ UNCHANGED <<listVars, part_input, detailVars, search_btn_disabled, gallery,
                   spawned, user_events>>
    /\ UNCHANGED otherVars

\* ---- the application ----

\* the steps of the three kinds of worker threads and of their main-thread callbacks
ImageWorkers ==
    \E w \in workers :
       \/ fetch_detail_image(w)
       \/ store_detail_image_data(w)
       \/ set_detail_image(w)

SearchWorkers ==
    \E w \in workers :
       \/ do_search_keyword(w)
       \/ do_search_disable(w)
       \/ search_components(w)
       \/ do_search_store(w)
       \/ do_search_apply_filters(w)
       \/ do_search_repopulate(w)
       \/ do_search_finally(w)

ImportWorkers ==
    \E w \in workers :
       \/ run_import(w)
       \/ run_import_repopulate(w)
       \/ run_import_finally(w)

\* the user events
SelectRow == \E row_idx \in 0..(Len(table) - 1) : on_data_table_row_selected(row_idx)

StartSearch ==
    \E trigger \in {"search-btn", "enter", "f5"}, keyword \in Keywords :
       do_search(trigger, keyword)

ChangeFilter ==
    \/ \E value \in MinStockOptions : on_select_changed(value)
    \/ \E pressed_index \in 0..2 : on_radio_set_changed(pressed_index)

ClickHeader == \E col_idx \in Columns : on_data_table_header_selected(col_idx)

TypePart == \E value \in TypedParts : edit_part_input(value)

PressImport ==
    \E button_id \in {"import-btn", "detail-import-btn"}, dest \in {0, 1} :
       do_import_action(button_id, dest)

\* the application once a search for <<RowC3, RowC1, RowC2>> has completed with the
\* minimum stock set to stock
TuiLoaded(stock) ==
    /\ raw_search_results = Sort(<<RowC3, RowC1, RowC2>>, 3, TRUE)
    /\ search_results = apply_filters(raw_search_results, 0, stock)
    /\ table = search_results
    /\ sort_col = 3
    /\ sort_ascending = FALSE
    /\ selected_index = -1
    /\ selected_row = NoRow
    /\ type_filter = 0
    /\ min_stock = stock
    /\ part_input = ""
    /\ image_request_id = 0
    /\ detail_image_data = "None"
    /\ detail_image = "None"
    /\ import_btn_disabled = FALSE
    /\ detail_import_btn_disabled = TRUE
    /\ search_btn_disabled = FALSE
    /\ gallery = NoGallery
    /\ workers = {}
    /\ spawned = 0
    /\ user_events = 0

\* the result list and the gallery, from the start of the application
TuiListInit ==
    /\ TuiIdle
    /\ PlacementIdle
    /\ EmitterIdle
    /\ ImportIdle
    /\ PureIdle

TuiListNext ==
    \/ StartSearch
    \/ SearchWorkers
    \/ ChangeFilter
    \/ ClickHeader
    \/ SelectRow
    \/ ImageWorkers
    \/ action_gallery

SpecTuiList == TuiListInit /\ [][TuiListNext]_vars

\* the detail pane, from a loaded result list
TuiDetailInit ==
    /\ \E stock \in {0, 1} : TuiLoaded(stock)
    /\ PlacementIdle
    /\ EmitterIdle
    /\ ImportIdle
    /\ PureIdle

TuiDetailNext == SelectRow \/ ImageWorkers

SpecTuiDetail == TuiDetailInit /\ [][TuiDetailNext]_vars

\* the buttons, from a loaded result list
TuiButtonsInit ==
    /\ TuiLoaded(0)
    /\ PlacementIdle
    /\ EmitterIdle
    /\ ImportIdle
    /\ PureIdle

TuiButtonsNext ==
    \/ SelectRow
    \/ ImageWorkers
    \/ TypePart
    \/ PressImport
    \/ ImportWorkers
    \/ StartSearch
    \/ SearchWorkers

SpecTuiButtons == TuiButtonsInit /\ [][TuiButtonsNext]_vars

\* every started thread gets to run, every network request returns or raises, and
\* the main thread gets to the callbacks handed to it by call_from_thread
SpecTuiButtonsFair ==
    SpecTuiButtons /\ WF_vars(ImageWorkers \/ SearchWorkers \/ ImportWorkers)

(***************************************************************************)
(* Claims about the 3D placement.                                          *)
(***************************************************************************)

\* the calculator has run and was handed raw vertex geometry
CalcRanWithGeometry == Len(calc_calls) = 1 /\ calc_calls[1] # NoGeometry

\* the calculator has run and was handed no geometry
CalcRanWithoutGeometry == Len(calc_calls) = 1 /\ calc_calls[1] = NoGeometry

\* lo and hi are the least and greatest vertex z of geometry g
IsZRange(g, lo, hi) ==
    /\ \E v \in g : v.z = lo
    /\ \E v \in g : v.z = hi
    /\ \A v \in g : lo <= v.z /\ v.z <= hi

\* the bounding-box rule, for z_min <= z_max: z_max < |z_min| is z_max + z_min < 0
FollowsRule(lo, hi, z) ==
    /\ (hi + lo < 0) => z = hi
    /\ (hi + lo >= 0) => 2 * z = -lo

C3_DeclaredFallback ==
    /\ CalcRanWithoutGeometry =>
        /\ 100 * model_offset[3] = fp_model.z
        /\ fp_model.z = -13400000 => model_offset[3] = -134000
    /\ op = "analyze_with_new_logic" => 100 * z_offset_old[1] = fp_model.z

\* C3 witness: the TUI import placed a model with z = -1340 whose geometry
\* exists but was not handed to the calculator.
C3_Witness ==
    /\ op = "tui_do_import"
    /\ CalcRanWithoutGeometry
    /\ geometry # NoGeometry
    /\ fp_model.z = -13400000
    /\ model_offset = <<0, 0, -134000>>

\* C4: every computed offset has x = 0 and y = 0, and an import of a footprint
\* without a model reference uses offset (0,0,0) and rotation (0,0,0) and never
\* calls the calculator.
C4_InPlaneOffsetZero ==
    /\ model_offset # NoResult => model_offset[1] = 0 /\ model_offset[2] = 0
    /\ (op \in {"import_component", "tui_do_import"} /\ ~fp_model.present) =>
        /\ model_offset = <<0, 0, 0>>
        /\ model_rotation = <<0, 0, 0>>
        /\ calc_calls = <<>>

\* C4 witness: an import whose component has a 3D uuid and downloadable geometry
\* but whose footprint carries no model reference.
C4_Witness ==
    /\ op = "import_component"
    /\ ~fp_model.present
    /\ comp_uuid_3d # ""
    /\ geometry # NoGeometry
    /\ model_offset = <<0, 0, 0>>

(***************************************************************************)
(* Claims about the emitter.                                               *)
(***************************************************************************)

RECURSIVE InlineRender(_, _)
\* the rendering of node k with everything on one line
InlineRender(h, k) ==
    LET items == h[k].items
        texts == [i \in 1..Len(items) |->
                    IF items[i].kind = "node" THEN InlineRender(h, items[i].ref)
                    ELSE ScalarText(items[i])]
    IN <<"(">> \o h[k].name
         \o (IF texts # <<>> THEN <<" ">> \o Join(<<" ">>, texts) ELSE <<>>)
         \o <<")">>

ChildNodes(h, k) == {h[k].items[i].ref : i \in {j \in 1..Len(h[k].items) : h[k].items[j].kind = "node"}}

RECURSIVE Descendants(_, _)
\* the nodes nested below node k, at any depth
Descendants(h, k) ==
    ChildNodes(h, k) \cup UNION {Descendants(h, c) : c \in ChildNodes(h, k)}

IsSpace(c) == c \in {" ", TAB, NL, CR}

IsDelimiter(c) == IsSpace(c) \/ c \in {"(", ")", QUOTE}

\* the least index >= from whose character satisfies the test, Len(t) + 1 if none
RECURSIVE FindQuote(_, _)
FindQuote(t, from) ==
    IF from > Len(t) THEN Len(t) + 1
    ELSE IF t[from] = QUOTE THEN from ELSE FindQuote(t, from + 1)

RECURSIVE FindDelimiter(_, _)
FindDelimiter(t, from) ==
    IF from > Len(t) THEN Len(t) + 1
    ELSE IF IsDelimiter(t[from]) THEN from ELSE FindDelimiter(t, from + 1)

Token(kind, text) == [t |-> kind, s |-> text]

RECURSIVE ReadTokens(_, _)
ReadTokens(t, pos) ==
    IF pos > Len(t) THEN <<>>
    ELSE IF IsSpace(t[pos]) THEN ReadTokens(t, pos + 1)
    ELSE IF t[pos] \in {"(", ")"} THEN <<Token(t[pos], <<>>)>> \o ReadTokens(t, pos + 1)
    ELSE IF t[pos] = QUOTE
         THEN LET close == FindQuote(t, pos + 1)
              IN IF close > Len(t) THEN <<Token("unterminated", <<>>)>>
                 ELSE <<Token("item", SubSeq(t, pos + 1, close - 1))>>
                        \o ReadTokens(t, close + 1)
         ELSE LET stop == FindDelimiter(t, pos)
              IN <<Token("item", SubSeq(t, pos, stop - 1))>> \o ReadTokens(t, stop)

RECURSIVE TreeTokens(_, _)
\* the tokens of the tree below node k: its name, then its items in order
\* (a number item as its formatted text)
TreeTokens(h, k) ==
    LET items == h[k].items
    IN <<Token("(", <<>>), Token("item", h[k].name)>>
         \o Concat([i \in 1..Len(items) |->
                      IF items[i].kind = "node" THEN TreeTokens(h, items[i].ref)
                      ELSE IF items[i].kind = "str" THEN <<Token("item", items[i].s)>>
                      ELSE <<Token("item", ScalarText(items[i]))>>])
         \o <<Token(")", <<>>)>>

\* C6: reading the rendered text back gives the tree's node names and items,
\* in order.
C6_RoundTrip ==
    ret # <<>> => ReadTokens(ret, 1) = TreeTokens(nodes, 1)

\* the item of the one-item node of SpecScalar, and the text render gave it:
\* ret is "(" name " " text ")"
TheItem == nodes[1].items[1]

EmittedText == SubSeq(ret, Len(nodes[1].name) + 3, Len(ret) - 1)

Quoted(s) == <<QUOTE>> \o s \o <<QUOTE>>

HasQuotingChar(s) == \E i \in 1..Len(s) : s[i] \in {" ", TAB, NL, "(", ")", QUOTE}

\* C7 as stated: a string is emitted in double quotes iff it contains whitespace,
\* a parenthesis, a double quote, or begins with a digit; every other string,
\* the empty one included, is emitted verbatim.
C7_Original ==
    (ret # <<>> /\ TheItem.kind = "str") =>
        LET s == TheItem.s
        IN IF HasQuotingChar(s) \/ (s # <<>> /\ IsDigit(s[1]))
           THEN EmittedText = Quoted(s)
           ELSE EmittedText = s

\* C7 amended: a string is emitted in double quotes iff it is empty, contains a
\* space, tab, line feed, parenthesis or double quote, or begins with a digit;
\* every other string (one holding a carriage return too) is emitted verbatim.
C7_QuotingRule ==
    (ret # <<>> /\ TheItem.kind = "str") =>
        LET s == TheItem.s
        IN IF s = <<>> \/ HasQuotingChar(s) \/ IsDigit(s[1])
           THEN EmittedText = Quoted(s)
           ELSE EmittedText = s

\* C7 witness: the empty string has been rendered, as "".
C7_Witness ==
    /\ ret # <<>>
    /\ TheItem.kind = "str"
    /\ TheItem.s = <<>>
    /\ EmittedText = <<QUOTE, QUOTE>>

RECURSIVE ParseNat(_)
\* the number a string of decimal digits denotes
ParseNat(t) ==
    IF t = <<>> THEN 0
    ELSE 10 * ParseNat(SubSeq(t, 1, Len(t) - 1))
           + (CHOOSE d \in 0..9 : DigitChar(d) = t[Len(t)])

IsDigits(t) == t # <<>> /\ \A i \in 1..Len(t) : IsDigit(t[i])

Unsigned(t) == IF t # <<>> /\ t[1] = "-" THEN Tail(t) ELSE t

\* the text is an integer literal: an optional minus sign and digits
IsIntLiteral(t) == IsDigits(Unsigned(t))

\* the number of characters after the decimal point
Decimals(t) == Len(t) - (CHOOSE i \in 1..Len(t) : t[i] = ".")

\* the float lies within 0.0000005 of an integer (a binary fraction is never
\* exactly 0.0000005 away)
NearInteger(v) ==
    LET den == Pow2(v.fbits)
    IN v.fnum <= den \div 2000000 \/ den - v.fnum <= den \div 2000000

NumberFormatCommon ==
    LET t == EmittedText
    IN /\ TheItem.kind = "int" =>
            /\ IsIntLiteral(t)
            /\ ParseNat(Unsigned(t)) = Abs(TheItem.n)
            /\ (t[1] = "-") <=> (TheItem.n < 0)
       /\ (TheItem.kind = "float" /\ IsIntegral(TheItem.f)) =>
            /\ IsIntLiteral(t)
            /\ Unsigned(t) = DigitsText(TheItem.f.ip)
       /\ t[Len(t)] # "."
       /\ Contains(t, ".") => t[Len(t)] # "0"

\* C8 as stated: integers verbatim, integral floats without a decimal point, no
\* number ending in "." or in "0" after a decimal point, and a non-integral
\* float never printed as an integer literal.
C8_Original ==
    (ret # <<>> /\ TheItem.kind \in {"int", "float"}) =>
        /\ NumberFormatCommon
        /\ (TheItem.kind = "float" /\ ~IsIntegral(TheItem.f)) => ~IsIntLiteral(EmittedText)

\* C8 amended: as stated, except that a non-integral float prints as an integer
\* literal exactly when it lies within 0.0000005 of an integer (it rounds to it
\* at 6 decimals); every other non-integral float prints with 1 to 6 decimals.
C8_NumberFormat ==
    (ret # <<>> /\ TheItem.kind \in {"int", "float"}) =>
        /\ NumberFormatCommon
        /\ (TheItem.kind = "float" /\ ~IsIntegral(TheItem.f)) =>
              /\ IsIntLiteral(EmittedText) <=> NearInteger(TheItem.f)
              /\ ~IsIntLiteral(EmittedText) =>
                    /\ Contains(EmittedText, ".")
                    /\ Decimals(EmittedText) \in 1..6

\* C8 witness: the float 2^-21 (about 0.00000048) has been rendered, as 0.
C8_Witness ==
    /\ ret # <<>>
    /\ TheItem.kind = "float"
    /\ TheItem.f = [neg |-> FALSE, ip |-> <<0>>, fnum |-> 1, fbits |-> 21]
    /\ EmittedText = <<"0">>

(***************************************************************************)
(* Claims about the shared import logic (SpecImport).                      *)
(***************************************************************************)
Fields(lib) == [i \in DOMAIN lib |-> lib[i].field]

VersionNumber(lib) == (CHOOSE i \in DOMAIN lib : lib[i].field = "version")

\* C9: a symbol library written for a target KiCad version holds the
\* generator_version field exactly when has_generator_version(version); for
\* version 8 it holds "(version 20231120)" and no generator_version, for
\* version 9 it holds the field; the lines come in the order version,
\* generator, [generator_version], symbol body.
C9_VersionHeader ==
    fs.sym_lib # << >> =>
        LET lib == fs.sym_lib
            gv == InSeq(Fields(lib), "generator_version")
        IN /\ gv <=> has_generator_version(kicad_version)
           /\ kicad_version = 8 => lib[VersionNumber(lib)].num = 20231120 /\ ~gv
           /\ kicad_version = 9 => gv
           /\ Fields(lib) = <<"kicad_symbol_lib", "version", "generator">>
                            \o When(gv, <<"generator_version">>)
                            \o <<"symbol">>
           /\ lib[Len(lib)].text # ""

\* a version-8 export has written its symbol library file
C9_Witness ==
    /\ export_only
    /\ kicad_version = 8
    /\ last.result = "dict"
    /\ InSeq(last.events, "write_symbol_file")
    /\ Fields(fs.sym_lib) = <<"kicad_symbol_lib", "version", "generator", "symbol">>

\* library imports with overwrite off and no confirm_overwrite callback
SkipSettings == ~export_only /\ ~overwrite /\ ~confirm_overwrite

StepDownloads == Count(last.events, "download_step")

WrlDownloads == Count(last.events, "download_wrl_source")

ReportsSkipped ==
    /\ last.fp_existed => InSeq(last.log, "Skipped: footprint")
    /\ last.step_existed => InSeq(last.log, "STEP skipped")
    /\ last.wrl_existed => InSeq(last.log, "WRL skipped")
    /\ last.sym_existed /\ comp_symbols => InSeq(last.log, "Symbol skipped")

\* C10 as stated: with overwrite off and no confirm_overwrite callback, every
\* library import of a component with a 3D model downloads the STEP model only
\* when the STEP file does not exist, so exactly once over the imports so far,
\* downloads the WRL/OBJ source exactly once, and reports existing files as
\* skipped.
C10_Original ==
    SkipSettings /\ last.result = "dict" /\ last.uuid_3d # "" =>
        /\ StepDownloads > 0 => ~last.step_existed
        /\ ~confirm_metadata => calls.step = 1
        /\ WrlDownloads = 1
        /\ ReportsSkipped

\* C10: with overwrite off and no confirm_overwrite callback, a completed
\* library import of a component with a 3D model downloads the STEP model
\* exactly when the STEP file does not exist at its start (so never again once
\* a download has produced the file), downloads the WRL/OBJ source once, and a
\* second time exactly when the first download returned nothing and the WRL
\* file does not exist, and reports every file it finds existing as skipped; a
\* cancelled import and an import of a component without a 3D model download
\* nothing.
C10_SkipExisting ==
    SkipSettings /\ last.result # "none" =>
        IF last.result = "dict" /\ last.uuid_3d # ""
        THEN /\ StepDownloads = (IF last.step_existed THEN 0 ELSE 1)
             /\ WrlDownloads = (IF last.wrl_first = <<NoGeometry>> /\ ~last.wrl_existed
                                THEN 2 ELSE 1)
             /\ fs.step /\ ~last.step_existed => calls.step >= 1
             /\ ReportsSkipped
        ELSE /\ StepDownloads = 0
             /\ WrlDownloads = 0
             /\ last.result = "dict" => ReportsSkipped

\* the second of two imports finds both model files and skips them
C10_Witness ==
    /\ SkipSettings
    /\ imports = 2
    /\ last.result = "dict"
    /\ last.step_existed /\ last.wrl_existed /\ last.fp_existed
    /\ StepDownloads = 0 /\ WrlDownloads = 1
    /\ calls = [step |-> 1, wrl |-> 2]
    /\ InSeq(last.log, "STEP skipped") /\ InSeq(last.log, "WRL skipped")
    /\ InSeq(last.log, "Skipped: footprint")

\* C11: confirm_overwrite is invoked only when export_only is false and a
\* footprint, symbol or 3D model file of the component exists (and then always,
\* when the callback is given); if it returns False the import returns None; if
\* it returns True the import goes on with overwrite forced to True (existing
\* files are rewritten and the STEP model downloaded again); when it is not
\* invoked the overwrite argument governs unchanged.
C11_ConfirmOverwrite ==
    last.result # "none" =>
        LET invoked == InSeq(last.events, "confirm_overwrite")
            exists == last.fp_existed \/ last.sym_existed \/ last.step_existed
                      \/ last.wrl_existed
            done == last.result = "dict"
        IN /\ invoked <=> (~export_only /\ confirm_overwrite /\ exists)
           /\ Count(last.events, "confirm_overwrite") <= 1
           /\ invoked <=> last.co_returned # << >>
           /\ last.co_returned = <<FALSE>> => last.result = "None"
           /\ last.co_returned = <<TRUE>> =>
                 /\ last.overwrite
                 /\ last.result = "None" => confirm_metadata
                 /\ done => /\ InSeq(last.log, "Saved: footprint")
                            /\ ~InSeq(last.log, "Skipped: footprint")
                            /\ last.uuid_3d # "" => StepDownloads = 1
                            /\ comp_symbols => InSeq(last.log, "Symbol added")
           /\ ~invoked => last.overwrite = overwrite
           /\ ~invoked /\ done /\ ~export_only =>
                 /\ last.fp_existed /\ ~overwrite => InSeq(last.log, "Skipped: footprint")
                 /\ last.fp_existed /\ overwrite => InSeq(last.log, "Saved: footprint")

\* the callback accepted the overwrite although the overwrite argument is off,
\* and the existing footprint was rewritten
C11_Witness ==
    /\ ~overwrite
    /\ last.co_returned = <<TRUE>>
    /\ last.result = "dict"
    /\ last.fp_existed
    /\ last.overwrite
    /\ InSeq(last.log, "Saved: footprint")

MetadataCalls == Count(last.events, "confirm_metadata")

ReturnedNone == last.cm_returned = <<NoneDict>>

WritesMetadata(md) ==
    /\ last.fp_meta = <<[description |-> md.description, keywords |-> md.keywords]>>
    /\ last.sym_meta = When(comp_symbols,
                            <<[description |-> md.description, keywords |-> md.keywords,
                               manufacturer |-> md.manufacturer]>>)

MetadataProtocol ==
    /\ MetadataCalls = 1 =>
          /\ last.cm_arg = <<ComputedMetadata>>
          /\ DOMAIN last.cm_arg[1] \ {"present"}
             = {"description", "keywords", "manufacturer"}
    /\ MetadataCalls = 1 /\ ReturnedNone => last.result = "None"
    /\ last.result = "None" =>
          last.co_returned = <<FALSE>> \/ (MetadataCalls = 1 /\ ReturnedNone)
    /\ last.result = "dict" =>
          /\ last.result_keys = {"title", "name", "fp_content", "sym_content"}
          /\ IF confirm_metadata
             THEN last.cm_returned # << >> /\ ~ReturnedNone
                  /\ WritesMetadata(last.cm_returned[1])
             ELSE WritesMetadata(ComputedMetadata)

\* C12 as stated: a given confirm_metadata callback is called exactly once in
\* every import, with the computed dict; None cancels; otherwise the returned
\* dict supplies the written metadata; None is returned only through a confirm
\* callback and every completed import returns the four-key dict.
C12_Original ==
    last.result # "none" =>
        /\ confirm_metadata => MetadataCalls = 1
        /\ MetadataProtocol

\* C12: a given confirm_metadata callback is called exactly once, with a dict
\* holding description, keywords and manufacturer, in every import that
\* confirm_overwrite has not cancelled before (and is not called at all in an
\* import that confirm_overwrite cancelled); if it returns None the import
\* returns None; otherwise the returned dict, not the computed one, supplies
\* the description and keywords of the footprint and the description, keywords
\* and manufacturer of the symbol; None is returned only through a confirm
\* callback and every completed import returns a dict with the keys title,
\* name, fp_content, sym_content.
C12_ConfirmMetadata ==
    last.result # "none" =>
        /\ MetadataCalls = (IF confirm_metadata /\ last.co_returned # <<FALSE>>
                            THEN 1 ELSE 0)
        /\ MetadataProtocol

\* the callback returned an edited dict and footprint and symbol carry it
C12_Witness ==
    /\ confirm_metadata
    /\ comp_symbols
    /\ last.result = "dict"
    /\ last.cm_arg = <<ComputedMetadata>>
    /\ last.fp_meta[1].description = "edited description"
    /\ last.sym_meta[1].manufacturer = "edited manufacturer"

FootprintWritten ==
    /\ InSeq(last.events, "write_footprint")
    /\ last.fp_meta # << >>
    /\ fs.footprint
    /\ export_only \/ ~last.fp_existed \/ last.overwrite
          => InSeq(last.log, "Saved: footprint")

IsDownload(e) == e \in {"download_wrl_source", "download_and_save_models"}

CalculatorRan == InSeq(last.events, "compute_model_transform")

\* every calculator call of the last run comes after a geometry download
CalcAfterDownload ==
    \A i \in DOMAIN last.events :
        last.events[i] = "compute_model_transform" =>
            \E j \in 1..(i - 1) : IsDownload(last.events[j])

\* the calculator's geometry argument is what the first download returned
CalcGetsDownload == last.calc_args = last.wrl_first

\* C14 as stated: in every front end, each calculator call for a footprint
\* whose 3D model uuid is known comes after the geometry download for that
\* uuid has returned and receives that download's result.
C14_Original ==
    CalculatorRan /\ last.uuid_3d # "" => CalcAfterDownload /\ CalcGetsDownload

\* C14: in import_component and in compare_part each calculator call for a
\* footprint whose 3D model uuid is known comes after the geometry download for
\* that uuid has returned and receives that download's result (nothing, when
\* the download returned nothing); the TUI's _do_import calls the calculator
\* before its model download and without any geometry.
C14_GeometryBeforePlacement ==
    CalculatorRan /\ last.uuid_3d # "" =>
        IF op = "tui_do_import"
        THEN /\ last.calc_args = <<NoGeometry>>
             /\ \A i \in DOMAIN last.events :
                   IsDownload(last.events[i]) =>
                       \E j \in 1..(i - 1) : last.events[j] = "compute_model_transform"
        ELSE /\ op \in {"import_component", "compare_part"}
             /\ CalcAfterDownload
             /\ CalcGetsDownload
             /\ calc_calls = last.wrl_first

\* import_component handed the downloaded geometry to the calculator
C14_Witness ==
    /\ op = "import_component"
    /\ last.uuid_3d # ""
    /\ CalculatorRan
    /\ last.wrl_first = <<geometry>>
    /\ last.calc_args = <<geometry>>
    /\ geometry # NoGeometry

(***************************************************************************)
(* Claims about _build_description (SpecDescription).                      *)
(***************************************************************************)
NonEmptyParts ==
    LET all == <<args.manufacturer_part, args.package, args.manufacturer>>
    IN SelectSeq(all, LAMBDA t : t # << >>)

OwnDescription == args.description # << >> /\ args.description # args.title

Positions(e) == {i \in DOMAIN last.events : last.events[i] = e}

GlobalUpdates == Positions("update_global_lib_tables")

ProjectUpdates == Positions("update_project_lib_tables")

\* C16: a completed library import performs exactly one table update, the
\* global one if use_global is true and the project one otherwise, after the
\* footprint (and the symbol, if any) have been written; an export_only import
\* performs no table update and creates no library structure.
C16_TableUpdate ==
    /\ last.result = "dict" /\ ~export_only =>
          /\ Cardinality(GlobalUpdates) = (IF use_global THEN 1 ELSE 0)
          /\ Cardinality(ProjectUpdates) = (IF use_global THEN 0 ELSE 1)
          /\ InSeq(last.log, IF use_global THEN "Global library tables updated."
                             ELSE "Project library tables updated.")
          /\ fs.tables
          /\ Positions("save_footprint") # {}
          /\ comp_symbols <=> Positions("add_symbol_to_lib") # {}
          /\ \A u \in GlobalUpdates \cup ProjectUpdates :
                \A w \in Positions("write_footprint") \cup Positions("save_footprint")
                         \cup Positions("write_symbol") \cup Positions("add_symbol_to_lib") :
                    w < u
    /\ last.result # "none" /\ export_only =>
          /\ GlobalUpdates = {} /\ ProjectUpdates = {}
          /\ Positions("ensure_lib_structure") = {}
          /\ ~fs.tables
    /\ last.result = "None" => GlobalUpdates = {} /\ ProjectUpdates = {}

\* a global import of a component with a symbol updated the global tables last
C16_Witness ==
    /\ use_global
    /\ comp_symbols
    /\ last.result = "dict"
    /\ Positions("add_symbol_to_lib") # {}
    /\ last.events[Len(last.events)] = "update_global_lib_tables"
    /\ fs.tables

\* the shape strings that name a known tag and carry its number of fields
WellFormedShapes ==
    UNION {{ShapeText(tag, fields) : fields \in [1..Schema[tag] -> FieldTexts]} :
              tag \in DOMAIN Schema}

IsSvgnode(text) == \E payload \in DecodablePayloads \cup BrokenPayloads :
                      text = SVGNODE \o <<TILDE>> \o payload

IsBrokenSvgnode(text) == \E payload \in BrokenPayloads :
                            text = SVGNODE \o <<TILDE>> \o payload

\* the input strings that are kept, in input order
KeptShapes == SelectSeq(args, LAMBDA t : t \in WellFormedShapes \/ IsSvgnode(t))

\* C17: every record with an unrecognized tag or a field count that
\* mismatches its tag's schema is dropped without raising, the well-formed
\* records are kept in input order, the reported counts equal the number of
\* successfully parsed records, and an SVGNODE record whose JSON payload cannot
\* be decoded yields an empty model reference rather than an error.
C17_PermissiveParsing ==
    call_done =>
        LET parsed == result.parsed
        IN /\ ~parsed.raised
           /\ ~result.fetched.raised
           /\ Len(parsed.records) = Len(KeptShapes)
           /\ \A i \in 1..Len(KeptShapes) :
                 KeptShapes[i] = (IF parsed.records[i].tag = SVGNODE
                                  THEN KeptShapes[i]
                                  ELSE ShapeText(parsed.records[i].tag,
                                                 parsed.records[i].fields))
           /\ \A i \in 1..Len(KeptShapes) :
                 IsSvgnode(KeptShapes[i]) <=> parsed.records[i].tag = SVGNODE
           /\ parsed.dropped = Len(args) - Len(KeptShapes)
           /\ Len(parsed.pads) + Len(parsed.pins)
                 = Len(SelectSeq(args, LAMBDA t : t \in WellFormedShapes))
           /\ Len(parsed.pads)
                 = Len(SelectSeq(args, LAMBDA t : t \in WellFormedShapes /\ StartsWith(t, PAD)))
           /\ \A i \in 1..Len(KeptShapes) :
                 IsBrokenSvgnode(KeptShapes[i]) => parsed.records[i].model = EmptyModelRef
           /\ (\A i \in 1..Len(args) : IsSvgnode(args[i]) => IsBrokenSvgnode(args[i]))
                 => parsed.model = EmptyModelRef /\ result.fetched.uuid = ""

\* one well-formed Pad and one garbage string gave one Pad and one dropped
\* record, and a broken SVGNODE payload gave an empty model reference
C17_Witness ==
    /\ call_done
    /\ \/ /\ args = <<ShapeText(PAD, <<<<"1">>, <<"2">>>>), ShapeText(<<"X">>, <<<<"1">>>>)>>
          /\ Len(result.parsed.pads) = 1
          /\ result.parsed.dropped = 1
       \/ /\ args = <<SVGNODE \o <<TILDE>> \o <<"{", "attrs", "}">>>>
          /\ result.parsed.model = EmptyModelRef
          /\ result.parsed.dropped = 0

\* the numbers of the well-formed records of one tag, in input order
NumbersOf(tag) ==
    LET own == SelectSeq(args, LAMBDA t : t \in WellFormedShapes
                                          /\ StartsWith(t, tag \o <<TILDE>>))
    IN [i \in 1..Len(own) |-> <<own[i][Len(tag) + 2]>>]

\* the text of a tree with one child per number, in order
ExpectedText(root, child, attrs, numbers) ==
    <<"(">> \o root
      \o Concat([i \in 1..Len(numbers) |->
                    <<" ", "(">> \o child \o <<" ">> \o attrs \o <<" ", "(">> \o NUMBER_NAME
                      \o <<" ">> \o numbers[i] \o <<")", ")">>])
      \o <<")">>

Unquoted(t) == SelectSeq(t, LAMBDA c : c # QUOTE)

Fine(v) == v.m * Pow2(v.e + 12)

\* the two values differ by at most a few roundings of the magnitudes involved
Close(restored, x, ox) ==
    Abs(Fine(restored) - Fine(x)) * Pow2(SigBits)
        <= 4 * Abs(Fine(x) - Fine(ox)) + 2 * Abs(Fine(x))

\* the axes and the rotation: Y is negated, X is not, rotation is unchanged
AxesRule ==
    /\ Sgn(result.normalized.x.m) = Sgn(Fine(args.p.x) - Fine(args.origin.x)) * Sgn(args.k.m)
    /\ Sgn(result.normalized.y.m) = -Sgn(Fine(args.p.y) - Fine(args.origin.y)) * Sgn(args.k.m)
    /\ result.normalized.rotation = args.p.rotation
    /\ result.restored.rotation = args.p.rotation

RECURSIVE OrderedText(_, _)
\* the texts of node k and of its items in insertion order, without layout
OrderedText(h, k) ==
    <<"(">> \o h[k].name
      \o Concat([i \in 1..Len(h[k].items) |->
                    IF h[k].items[i].kind = "node"
                    THEN OrderedText(h, h[k].items[i].ref)
                    ELSE ScalarText(h[k].items[i])])
      \o <<")">>

\* a text without its spaces and line breaks
Squeeze(t) == SelectSeq(t, LAMBDA c : c # " " /\ c # NL)

\* C20: render emits the items of every node in their insertion order: the
\* text of an item added earlier precedes the text of an item added later,
\* whatever their kinds, so the output is the items' texts in insertion order
\* up to spaces and line breaks.
C20_InsertionOrder ==
    ret # <<>> => Squeeze(ret) = Squeeze(OrderedText(nodes, 1))

\* the steps of import_component that neither write nor download a model
ReadOnlySteps ==
    {"fetch_full_component", "check_existing_files", "confirm_overwrite", "confirm_metadata"}

\* C21: whenever import_component returns None, no directory or file has been
\* created or modified, no library table has been touched and no 3D model
\* download has been started: both cancellation points precede every write
\* and every model download.
C21_CancelLeavesNoTrace ==
    [][(imports' = imports + 1 /\ last'.result = "None") =>
          /\ fs' = fs
          /\ calls' = calls
          /\ \A i \in DOMAIN last'.events : last'.events[i] \in ReadOnlySteps
          /\ last'.log = << >>]_vars

\* an import into an empty library was cancelled by confirm_metadata
C21_Witness ==
    /\ last.result = "None"
    /\ confirm_metadata
    /\ InSeq(last.events, "confirm_metadata")
    /\ fs = NoFiles

\* C22: in every completed import, in export_only and in library mode, the
\* emitted footprint text carries a non-empty 3D model path only if a WRL model
\* file exists at that path when the import finishes; a failed or empty model
\* download never leaves a footprint that references a missing model file.
C22_ModelPathHasFile ==
    last.result = "dict" =>
        /\ last.model_path # "" => fs.wrl
        /\ fs.footprint /\ fs.fp_model_path # "" => fs.wrl

\* the requests for the WRL/OBJ source made by the last import
WrlRequests == Count(last.events, "download_wrl_source")

\* C23 as stated: within one import_component invocation the WRL/OBJ source
\* is requested at most once, whatever the download returns, and the result
\* obtained for the offset computation is the one reused when saving.
C23_Original ==
    last.result = "dict" =>
        /\ WrlRequests <= 1
        /\ last.uuid_3d # "" => last.saved_source = last.wrl_first

\* C23 amended: the source is requested once for the offset computation when
\* the component has a 3D uuid, and a second time exactly when that request
\* returned nothing and the back end still wants the file (always in export
\* mode; in library mode when overwrite is on or the WRL file does not exist);
\* a source obtained by the first request is the one saved.
C23_WrlRequests ==
    last.result = "dict" =>
        /\ WrlRequests <= 2
        /\ last.uuid_3d = "" => WrlRequests = 0
        /\ last.uuid_3d # "" => WrlRequests >= 1
        /\ WrlRequests = 2 <=>
              /\ last.uuid_3d # ""
              /\ last.wrl_first = <<NoGeometry>>
              /\ export_only \/ last.overwrite \/ ~last.wrl_existed
        /\ (last.uuid_3d # "" /\ last.wrl_first # <<NoGeometry>>) =>
              last.saved_source = last.wrl_first

\* a library import whose first request returned a source saved that source
\* without asking again, although the WRL file did not exist
C23_Witness ==
    /\ last.result = "dict"
    /\ ~export_only
    /\ last.uuid_3d # ""
    /\ last.wrl_first # <<NoGeometry>>
    /\ ~last.wrl_existed
    /\ WrlRequests = 1
    /\ last.saved_source = last.wrl_first

(***************************************************************************)
(* Claims about the terminal user interface.                               *)
(***************************************************************************)

\* the image worker w takes this step and was started for an earlier selection
\* than the most recent one
StaleFetchSteps(w) ==
    /\ w \in workers
    /\ w.kind = "image"
    /\ w \notin workers'
    /\ w.request_id # image_request_id

\* the widget half of C24: no step of a stale fetch changes what the detail
\* widget shows, because _set_detail_image compares the ids on the main thread
StaleFetchKeepsWidget ==
    [][\A w \in workers : StaleFetchSteps(w) => detail_image' = detail_image]_vars

\* C24: stale image responses are never shown or stored: a step of a fetch
\* that was started for an earlier selection than the most recent one changes
\* neither the detail widget nor _detail_image_data.
C24_NoStaleImage ==
    [][\A w \in workers :
          StaleFetchSteps(w) =>
             /\ detail_image' = detail_image
             /\ detail_image_data' = detail_image_data]_vars

\* the import workers that have not reached their finally block yet
ImportsInFlight == {w \in workers : w.kind = "import" /\ w.pc \in {"import", "repopulate"}}

\* the import workers inside _do_import, writing the library at lib_dir
ImportsWriting(lib_dir) == {w \in WorkersAt("import", "import") : w.lib_dir = lib_dir}

\* C25: at most one import worker runs at a time: while an import is in flight
\* both Import buttons are disabled, no second import is in flight, and no two
\* imports write the same library at once.
C25_OneImportWorker ==
    /\ Cardinality(ImportsInFlight) <= 1
    /\ ImportsInFlight # {} => import_btn_disabled /\ detail_import_btn_disabled
    /\ \A lib_dir \in {ProjectDir, GlobalLibDir} : Cardinality(ImportsWriting(lib_dir)) <= 1

\* two imports write the same library at once
TwoImportsWriting == \E lib_dir \in {ProjectDir, GlobalLibDir} : Cardinality(ImportsWriting(lib_dir)) = 2

\* an import started by _do_import_action has not ended yet
ImportRunning == \E w \in workers : w.kind = "import"

\* a search worker that found the keyword empty ends with this step
EmptySearchEnds(w) ==
    /\ w \in workers
    /\ w.kind = "search"
    /\ w.keyword = ""
    /\ w \notin workers'

\* C26: every import that disabled the Import buttons re-enables both in the
\* end, whatever _do_import did; every search that disabled the Search button
\* re-enables it in the end; and a search with an empty keyword ends without
\* touching the Search button.
C26_ButtonsReenabled ==
    /\ ImportRunning ~> (~ImportRunning /\ ~import_btn_disabled /\ ~detail_import_btn_disabled)
    /\ search_btn_disabled ~> ~search_btn_disabled
    /\ [][\A w \in workers :
             EmptySearchEnds(w) =>
                /\ search_btn_disabled' = search_btn_disabled
                /\ \A v \in workers' : v.id # w.id]_vars

\* an import that raised an exception other than APIError is half way through its
\* finally block: the Import button is enabled again, the detail one comes next
C26_Witness ==
    \E w \in WorkersAt("import", "finally_detail") :
       /\ w.outcome = "Exception"
       /\ ~import_btn_disabled
       /\ detail_import_btn_disabled

\* a GalleryScreen has been constructed whose index is outside its results:
\* _update_gallery (tui.py:458-461) then raises IndexError
GalleryOutOfRange ==
    /\ gallery # NoGallery
    /\ gallery.index \notin 0..(Len(gallery.results) - 1)

\* C27: _selected_index is -1 or an index into _search_results at which the row
\* the user selected still stands, and no GalleryScreen is constructed with an
\* index outside its results.
C27_SelectedIndexValid ==
    /\ \/ selected_index = -1
       \/ /\ selected_index \in 0..(Len(search_results) - 1)
          /\ search_results[selected_index + 1] = selected_row
    /\ ~GalleryOutOfRange

====
